---- MODULE Spec2Model ----
(***************************************************************************)
(* Model of avif-parse (src/src/lib.rs): read_avif and the box parsers it  *)
(* drives.  The input file is produced lazily: every action that reads a   *)
(* box draws that box from a bounded set, so a behaviour is one parse of   *)
(* one file.  Boxes are drawn as their decoded fields; the byte layout     *)
(* inside the meta box is not modelled, each of its children is given a    *)
(* declared payload length of BodyLen + unread bytes.                      *)
(***************************************************************************)
EXTENDS Integers, Sequences, FiniteSets, TLC

\* ---------------------------------------------------------------- bounds
MaxItemId == 3          \* item ids of the explored files are 1..MaxItemId
MaxTopBoxes == 4        \* top-level boxes read, ftyp included
MaxMetaChildren == 6    \* child boxes read inside one meta box
MaxMdatLen == 2         \* payload bytes of an mdat box
MaxRefs == 2            \* item references of a file (family "refs")
MaxAssoc == 2           \* ipma entries of a file (family "props")
MaxInfe == 2            \* infe entries of an iinf box (family "infos")
MaxExtents == 2         \* extents of an iloc item (family "extents")
BodyLen == 4            \* payload bytes attributed to the parsed fields of a meta child
U64Bits == 10           \* width standing for the 64 bits of u64 in offset arithmetic

\* ------------------------------------------------------------------ state
VARIABLES
    scope,          \* the family of inputs this behaviour explores (a bound)
    debug_assertions, \* cfg(debug_assertions): the build checks its debug assertions
    pc,             \* position in read_avif
    offset,         \* OffsetReader.offset: bytes consumed so far
    eof,            \* the stream is exhausted
    nboxes,         \* top-level boxes read so far
    nchild,         \* children read in the current meta box
    cur,            \* the box read by the last step, as it lies in the file
    meta,           \* read_avif: meta (Option<AvifInternalMeta>)
    mdats,          \* read_avif: mdats
    captured,       \* the media-data boxes as they were captured from the file
    local,          \* read_avif_meta: its local variables
    alpha_item_id,  \* read_avif: alpha_item_id
    context,        \* read_avif: context (AvifData)
    loc_i,          \* read_avif: index of the iloc item being loaded
    ext_j,          \* read_avif: index of the extent being loaded (0: none)
    result,         \* the value read_avif returns
    rd,             \* a BoxIter over a stream and its open sub-readers (ReaderSpec)
    obu,            \* parse_obu over an AV1 buffer (ObuSpec)
    tw,             \* two calls of read_avif on one input, side by side (TwiceSpec)
    il              \* read_iloc over the bits of an iloc payload (IlocSpec)

\* the variables of read_avif
parse_vars == <<scope, debug_assertions, pc, offset, eof, nboxes, nchild, cur, meta, mdats,
                captured, local, alpha_item_id, context, loc_i, ext_j, result>>

vars == <<parse_vars, rd, obu, tw, il>>

\* ------------------------------------------------------- program constants
MIN_SIZE == 8
MIN_LARGE_SIZE == 16

U64Max == 2^U64Bits - 1

Ids == 1..MaxItemId

\* Option<T> is a sequence of length at most one.
None == <<>>
Some(x) == <<x>>
IsSome(o) == Len(o) = 1
Unwrap(o) == o[1]

Min(a, b) == IF a <= b THEN a ELSE b

\* Result<T>: Ok carries the value, Err the Error variant and its static text.
Ok(v) == [ok |-> TRUE, val |-> v, kind |-> "Ok", why |-> ""]
Err(k, w) == [ok |-> FALSE, val |-> <<>>, kind |-> k, why |-> w]

\* A failed assertion: the thread panics and read_avif returns nothing.
Panic(w) == [ok |-> FALSE, val |-> <<>>, kind |-> "Panic", why |-> w]

checked_add_Wrapping(a, b) == Some((a + b) % (U64Max + 1))

\* u64::checked_add at the modelled width
checked_add(a, b) == IF a + b > U64Max THEN None ELSE Some(a + b)
checked_sub(a, b) == IF a < b THEN None ELSE Some(a - b)

\* The payload byte stored at absolute file position p.  The parser never
\* inspects media data, so a byte is identified with its position.
ByteAt(p) == p % 256
FileBytes_Relative(from, n) == [i \in 1..n |-> ByteAt(i - 1)]

FileBytes(from, n) == [i \in 1..n |-> ByteAt(from + i - 1)]

\* BoxType::from(u32): the four-character codes the parser dispatches on;
\* every other code is an unrecognised box.
KnownBoxes == {"ftyp", "meta", "mdat", "pitm", "iinf", "infe", "iloc", "iref",
               "iprp", "ipco", "ipma", "pixi", "auxC", "uuid"}
BoxType(fourcc) == IF fourcc \in KnownBoxes THEN fourcc ELSE "unknown"

\* ------------------------------------------------------------ box headers
\* the extended type of a uuid box: `[0u8; 16]`
UUID_SIZE == 16

read_uuid_NoRoomCheck(name, size, first, hbytes) ==
    IF name = "uuid" THEN Min(UUID_SIZE, hbytes - first) ELSE 0

\* read_box_header, the extended type: src.read(&mut buffer) returns the
\* bytes it got, at most UUID_SIZE, and they count as header bytes.
read_uuid(name, size, first, hbytes) ==
    IF name = "uuid" /\ size >= first + UUID_SIZE
    THEN Min(UUID_SIZE, hbytes - first)
    ELSE 0

\* A header as it lies in the stream: hbytes is the number of bytes the
\* reader can still supply when the header is read.
read_box_header(h) ==
    IF h.hbytes < 8 THEN Err("UnexpectedEOF", "")
    ELSE IF h.size32 = 0 THEN Err("Unsupported", "unknown sized box")
    ELSE IF h.size32 = 1 /\ h.hbytes < 16 THEN Err("UnexpectedEOF", "")
    ELSE IF h.size32 = 1 /\ h.size64 < MIN_LARGE_SIZE
    THEN Err("InvalidData", "malformed wide size")
    ELSE IF h.size32 # 1 /\ h.size32 < MIN_SIZE THEN Err("InvalidData", "malformed size")
    ELSE LET size == IF h.size32 = 1 THEN h.size64 ELSE h.size32
             first == IF h.size32 = 1 THEN MIN_LARGE_SIZE ELSE MIN_SIZE
             count == read_uuid(BoxType(h.name), size, first, h.hbytes) IN
         IF ~(first + count <= size) THEN Panic("assertion failed: offset <= size")
         ELSE Ok([name |-> BoxType(h.name), size |-> size, offset |-> first + count])

\* The bytes read_box_header takes from the reader: the header of the box
\* it returns, the fields read before an error, or all that was left.
header_bytes(h) ==
    LET r == read_box_header(h) IN
    IF r.ok THEN r.val.offset
    ELSE IF r.kind = "UnexpectedEOF" THEN h.hbytes
    ELSE IF h.size32 = 1 THEN MIN_LARGE_SIZE
    ELSE MIN_SIZE

\* BoxIter::next_box, the limit of the sub-reader: self.src.take(h.size - h.offset)
content_limit(b) == b.size - b.offset

\* BoxIter::next_box: end of input is Ok(None), a header is Ok(Some(h)).
next_box(h) ==
    LET r == read_box_header(h) IN
    IF r.ok THEN Ok(Some(r.val))
    ELSE IF r.kind = "UnexpectedEOF" THEN Ok(None)
    ELSE r

\* debug_assert_eq!(0, limit) stands in the branch taken when limit # 0.
check_parser_state(limit) ==
    IF limit = 0 THEN Ok(<<>>)
    ELSE IF debug_assertions THEN Panic("bad parser state bytes left")
    ELSE Err("InvalidData", "unread box content or bad parser sync")

skip_Whole(bytes, have) == Ok(bytes)

\* skip(src, bytes): io::copy runs to the end of the reader and does not
\* fail when the reader ends early.  The bytes it takes, of `have` there.
skip(bytes, have) == Ok(Min(bytes, have))

\* skip_box_content on a box with bytes_left in its sub-reader
skip_box_content(b, bytes_left, have) ==
    LET to_skip == checked_sub(b.size, b.offset) IN
    IF to_skip = None THEN Err("InvalidData", "header offset > size")
    ELSE IF Unwrap(to_skip) # bytes_left
    THEN Panic("assertion failed: to_skip == src.bytes_left()")
    ELSE skip(Unwrap(to_skip), have)

\* Headers of the explored files.  A complete header with a 32-bit size,
\* the defective sizes, and the truncated headers.
Hdr(n, s32, s64, hb) == [name |-> n, size32 |-> s32, size64 |-> s64, hbytes |-> hb]
PlainHeaders(names, paylens) ==
    {Hdr(n, MIN_SIZE + p, 0, 16) : n \in names, p \in paylens}
WideHeaders(names, paylens) ==
    {Hdr(n, 1, MIN_LARGE_SIZE + p, 16) : n \in names, p \in paylens}
BadHeaders(names) ==
    {Hdr(n, s, 0, 16) : n \in names, s \in {0, 4}}
        \cup {Hdr(n, 1, MIN_LARGE_SIZE - 1, 16) : n \in names}
EofHeaders == {Hdr("free", 8, 0, hb) : hb \in {0, 4}} \cup {Hdr("free", 1, 16, 8)}
\* uuid boxes: with the extended type and one byte, without room for the
\* extended type, and cut short inside the extended type
UuidHeaders ==
    {Hdr("uuid", MIN_SIZE + p, 0, MIN_SIZE + UUID_SIZE) : p \in {4, UUID_SIZE + 1}}
        \cup {Hdr("uuid", MIN_SIZE + UUID_SIZE + 1, 0, MIN_SIZE + 10)}

\* The bytes left in a box when its BoxIter has run to the end, the box
\* holding `extra` bytes (too few for a header) of `extra + missing` it
\* declares after its last child: next_box takes the bytes that are there.
after_iter(extra, missing) == extra + missing - header_bytes(Hdr("free", 0, 0, extra))

\* ------------------------------------------------------------------ ftyp
\* read_ftyp on a box with `limit` payload bytes declared, of which the
\* stream holds `have`.
read_ftyp(limit, have, major) ==
    IF Min(limit, have) < 8 THEN Err("UnexpectedEOF", "")
    ELSE IF (limit - 8) % 4 # 0 THEN Err("InvalidData", "invalid ftyp size")
    ELSE IF have < limit THEN Err("UnexpectedEOF", "")
    ELSE Ok([major_brand |-> major])

read_avif_ftyp_AcceptAvis(b, have, major) ==
    IF b.name = "ftyp" THEN
        LET ftyp == read_ftyp(content_limit(b), have, major) IN
        IF ~ftyp.ok THEN ftyp
        ELSE IF ftyp.val.major_brand \notin {"avif", "avis"}
            THEN Err("InvalidData", "ftyp must be 'avif'")
        ELSE Ok(<<>>)
    ELSE Err("InvalidData", "'ftyp' box must occur first")

\* the brand check of a parser that remembers, from one call of the process
\* to the next, that it has already seen a file type box
read_avif_ftyp_Remembered(b, have, major) ==
    IF tw.turn = "second" THEN Ok(<<>>)
    ELSE IF b.name = "ftyp" THEN
        LET ftyp == read_ftyp(content_limit(b), have, major) IN
        IF ~ftyp.ok THEN ftyp
        ELSE IF ftyp.val.major_brand # "avif" THEN
            IF ftyp.val.major_brand = "avis"
            THEN Err("Unsupported", "Animated AVIF is not supported")
            ELSE Err("InvalidData", "ftyp must be 'avif'")
        ELSE Ok(<<>>)
    ELSE Err("InvalidData", "'ftyp' box must occur first")

\* read_avif, the check of the first box
read_avif_ftyp(b, have, major) ==
    IF b.name = "ftyp" THEN
        LET ftyp == read_ftyp(content_limit(b), have, major) IN
        IF ~ftyp.ok THEN ftyp
        ELSE IF ftyp.val.major_brand # "avif" THEN
            IF ftyp.val.major_brand = "avis"
            THEN Err("Unsupported", "Animated AVIF is not supported")
            ELSE Err("InvalidData", "ftyp must be 'avif'")
        ELSE Ok(<<>>)
    ELSE Err("InvalidData", "'ftyp' box must occur first")

\* ------------------------------------------------------- full-box fields
read_fullbox_version_no_flags(t) ==
    IF t.flags # 0 THEN Err("Unsupported", "expected flags to be 0")
    ELSE Ok(t.version)

\* ------------------------------------------------------------------ pitm
read_pitm(t) ==
    LET v == read_fullbox_version_no_flags(t) IN
    IF ~v.ok THEN v
    ELSE IF v.val \in {0, 1} THEN Ok(t.item_id)
    ELSE Err("Unsupported", "unsupported pitm version")

\* ------------------------------------------------------------ iinf, infe
read_infe(e) ==
    IF e.version \notin {2, 3} THEN Err("Unsupported", "unsupported version in 'infe' box")
    ELSE IF e.item_protection_index # 0
        THEN Err("Unsupported", "protected items are not supported")
    ELSE Ok([item_id |-> e.item_id, item_type |-> e.item_type])

RECURSIVE read_iinf_entries(_, _)
read_iinf_entries(entries, item_infos) ==
    IF entries = <<>> THEN Ok(item_infos)
    ELSE LET b == Head(entries) IN
         IF BoxType(b.name) # "infe"
         THEN Err("InvalidData", "iinf box should contain only infe boxes")
         ELSE LET r == read_infe(b) IN
              IF ~r.ok THEN r
              ELSE read_iinf_entries(Tail(entries), Append(item_infos, r.val))

read_iinf(t) ==
    LET v == read_fullbox_version_no_flags(t) IN
    IF ~v.ok THEN v
    ELSE IF v.val \notin {0, 1} THEN Err("Unsupported", "unsupported iinf version")
    ELSE read_iinf_entries(t.entries, <<>>)

\* ------------------------------------------------------------------ iref
RECURSIVE read_iref_tos(_, _, _)
read_iref_tos(b, tos, refs) ==
    IF tos = <<>> THEN Ok(refs)
    ELSE IF b.from_item_id = Head(tos)
        THEN Err("InvalidData", "from_item_id and to_item_id must be different")
    ELSE read_iref_tos(b, Tail(tos),
            Append(refs, [item_type |-> b.name, from_item_id |-> b.from_item_id,
                          to_item_id |-> Head(tos)]))

RECURSIVE read_iref_boxes(_, _)
read_iref_boxes(boxes, refs) ==
    IF boxes = <<>> THEN Ok(refs)
    ELSE LET b == Head(boxes)
             r == read_iref_tos(b, b.tos, refs) IN
         IF ~r.ok THEN r
         ELSE LET c == check_parser_state(b.unread) IN
              IF ~c.ok THEN c ELSE read_iref_boxes(Tail(boxes), r.val)

read_iref(t) ==
    LET v == read_fullbox_version_no_flags(t) IN
    IF ~v.ok THEN v
    ELSE IF v.val > 1 THEN Err("Unsupported", "iref version")
    ELSE read_iref_boxes(t.boxes, <<>>)

\* ------------------------------------------------------ iprp, ipco, ipma
Property(k, d) == [kind |-> k, data |-> d]

\* ArrayVec<u8, 16>::capacity()
PIXI_CAPACITY == 16

\* The payload holds the count byte, as many channel bytes as it announces
\* (p.data) and p.unread bytes more.
read_pixi(p) ==
    LET v == read_fullbox_version_no_flags(p) IN
    IF ~v.ok THEN v
    ELSE IF v.val # 0 THEN Err("Unsupported", "pixi version")
    ELSE LET num_channels == Len(p.data)
             channels == SubSeq(p.data, 1, Min(num_channels, PIXI_CAPACITY)) IN
         IF debug_assertions /\ num_channels # Len(channels)
         THEN Panic("assertion failed: num_channels == channels.len()")
         ELSE LET c == check_parser_state(num_channels - Len(channels) + p.unread) IN
              IF ~c.ok THEN c ELSE Ok(channels)

read_auxc(p) ==
    LET v == read_fullbox_version_no_flags(p) IN
    IF ~v.ok THEN v
    ELSE IF v.val # 0 THEN Err("Unsupported", "auxC version")
    ELSE Ok(p.data)

RECURSIVE read_ipco(_, _)
read_ipco(boxes, properties) ==
    IF boxes = <<>> THEN Ok(properties)
    ELSE LET b == Head(boxes)
             r == CASE BoxType(b.name) = "pixi" ->
                          LET x == read_pixi(b) IN
                          IF x.ok THEN Ok(Property("Channels", x.val)) ELSE x
                    [] BoxType(b.name) = "auxC" ->
                          LET x == read_auxc(b) IN
                          IF x.ok THEN Ok(Property("AuxiliaryType", x.val)) ELSE x
                    [] OTHER -> Ok(Property("Unsupported", <<>>))
         IN IF ~r.ok THEN r ELSE read_ipco(Tail(boxes), Append(properties, r.val))

RECURSIVE read_ipma_assocs(_, _, _)
read_ipma_assocs(item_id, assocs, out) ==
    IF assocs = <<>> THEN out
    ELSE read_ipma_assocs(item_id, Tail(assocs),
            Append(out, [item_id |-> item_id, essential |-> Head(assocs).essential,
                         property_index |-> Head(assocs).property_index]))

RECURSIVE read_ipma_entries(_, _)
read_ipma_entries(entries, out) ==
    IF entries = <<>> THEN out
    ELSE read_ipma_entries(Tail(entries),
            read_ipma_assocs(Head(entries).item_id, Head(entries).assocs, out))

\* The entries announced by entry_count are read; what the box holds after
\* them (b.unread) is not looked at.
read_ipma(b) == Ok(read_ipma_entries(b.entries, <<>>))

\* read_iprp, the loop over the children: the last ipco and the last ipma win.
RECURSIVE read_iprp_children(_, _, _)
read_iprp_children(boxes, properties, associations) ==
    IF boxes = <<>> THEN Ok([properties |-> properties, associations |-> associations])
    ELSE LET b == Head(boxes) IN
         CASE BoxType(b.name) = "ipco" ->
                LET r == read_ipco(b.props, <<>>) IN
                IF ~r.ok THEN r
                ELSE read_iprp_children(Tail(boxes), r.val, associations)
           [] BoxType(b.name) = "ipma" ->
                LET r == read_ipma(b) IN
                IF ~r.ok THEN r
                ELSE read_iprp_children(Tail(boxes), properties, r.val)
           [] OTHER -> Err("InvalidData", "unexpected ipco child")

RECURSIVE associate_FromZero(_, _, _)
associate_FromZero(associations, properties, associated) ==
    IF associations = <<>> THEN associated
    ELSE LET a == Head(associations)
             index == a.property_index IN
         IF index + 1 <= Len(properties) /\ properties[index + 1].kind # "Unsupported"
         THEN associate_FromZero(Tail(associations), properties,
                  Append(associated, [item_id |-> a.item_id,
                                      property |-> properties[index + 1]]))
         ELSE associate_FromZero(Tail(associations), properties, associated)

\* read_iprp, the resolution of the associations against the property list
RECURSIVE associate(_, _, _)
associate(associations, properties, associated) ==
    IF associations = <<>> THEN associated
    ELSE LET a == Head(associations)
             index == a.property_index - 1 IN
         IF a.property_index = 0 THEN associate(Tail(associations), properties, associated)
         ELSE IF index + 1 <= Len(properties) /\ properties[index + 1].kind # "Unsupported"
         THEN associate(Tail(associations), properties,
                  Append(associated, [item_id |-> a.item_id,
                                      property |-> properties[index + 1]]))
         ELSE associate(Tail(associations), properties, associated)

read_iprp(t) ==
    LET r == read_iprp_children(t.boxes, <<>>, <<>>) IN
    IF ~r.ok THEN r
    ELSE Ok(associate(r.val.associations, r.val.properties, <<>>))

\* ------------------------------------------------------------------ iloc
\* IlocFieldSize::try_from and to_bits: the width of a field in bytes
IlocFieldSizeOk(v) == v \in {0, 4, 8}

\* BitReader::read_u64(size.to_bits()): a field of width zero reads as 0.
read_field(size, v) == IF size = 0 THEN 0 ELSE v

WithLength(s, e) == [kind |-> "WithLength", start |-> s, end |-> e]
ToEnd(s) == [kind |-> "ToEnd", start |-> s, end |-> 0]

\* read_iloc, the extents of one item
RECURSIVE read_iloc_extents(_, _, _, _)
read_iloc_extents(t, base_offset, raw, extents) ==
    IF raw = <<>> THEN Ok(extents)
    ELSE LET extent_offset == read_field(t.offset_size, Head(raw).extent_offset)
             extent_length == read_field(t.length_size, Head(raw).extent_length)
             start == checked_add(base_offset, extent_offset) IN
         IF start = None THEN Err("InvalidData", "offset calculation overflow")
         ELSE IF extent_length = 0
         THEN read_iloc_extents(t, base_offset, Tail(raw),
                                Append(extents, ToEnd(Unwrap(start))))
         ELSE LET end == checked_add(Unwrap(start), extent_length) IN
              IF end = None THEN Err("InvalidData", "end calculation overflow")
              ELSE read_iloc_extents(t, base_offset, Tail(raw),
                       Append(extents, WithLength(Unwrap(start), Unwrap(end))))

\* read_iloc, one item
read_iloc_item(t, it) ==
    LET method == IF t.version = 0 THEN 0 ELSE it.construction_method IN
    IF method = 2
    THEN Err("Unsupported", "construction_method 'item_offset' is not supported")
    ELSE IF method \notin {0, 1}
    THEN Err("InvalidData", "construction_method is taken from the set 0, 1 or 2")
    ELSE IF it.data_reference_index # 0
    THEN Err("Unsupported", "external file references are not supported")
    ELSE IF Len(it.extents) < 1
    THEN Err("InvalidData", "extent_count must have a value 1 or greater")
    ELSE LET e == read_iloc_extents(t, read_field(t.base_offset_size, it.base_offset),
                                    it.extents, <<>>) IN
         IF ~e.ok THEN e
         ELSE Ok([item_id |-> it.item_id,
                  construction_method |-> IF method = 0 THEN "File" ELSE "Idat",
                  extents |-> e.val])

RECURSIVE read_iloc_items(_, _, _)
read_iloc_items(t, raw, items) ==
    IF raw = <<>> THEN Ok(items)
    ELSE LET r == read_iloc_item(t, Head(raw)) IN
         IF ~r.ok THEN r ELSE read_iloc_items(t, Tail(raw), Append(items, r.val))

read_iloc(t) ==
    LET v == read_fullbox_version_no_flags(t) IN
    IF ~v.ok THEN v
    ELSE IF v.val > 2 THEN Err("Unsupported", "unsupported version in 'iloc' box")
    ELSE IF ~(IlocFieldSizeOk(t.offset_size) /\ IlocFieldSizeOk(t.length_size)
              /\ IlocFieldSizeOk(t.base_offset_size))
    THEN Err("InvalidData", "value must be in the set {0, 4, 8}")
    ELSE LET r == read_iloc_items(t, t.items, <<>>) IN
         IF ~r.ok THEN r
         ELSE IF t.remaining = 0 THEN r
         ELSE Err("InvalidData", "invalid iloc size")

\* ------------------------------------------------------------ MediaDataBox
contains_extent_Inclusive(mdat, extent) ==
    IF mdat.offset <= extent.start
    THEN extent.start - mdat.offset <= Len(mdat.data)
    ELSE FALSE

\* MediaDataBox::contains_extent
contains_extent(mdat, extent) ==
    IF mdat.offset <= extent.start
    THEN extent.start - mdat.offset < Len(mdat.data)
    ELSE FALSE

matches_extent(mdat, extent) ==
    IF mdat.offset = extent.start
    THEN IF extent.kind = "WithLength"
         THEN LET end == checked_add(mdat.offset, Len(mdat.data)) IN
              IF end # None THEN Unwrap(end) = extent.end ELSE FALSE
         ELSE TRUE
    ELSE FALSE

\* <[u8]>::get(from..to), 0-based and half-open: None when out of bounds
slice_get(data, from, to) ==
    IF from <= to /\ to <= Len(data) THEN Some(SubSeq(data, from + 1, to)) ELSE None

read_extent(mdat, extent) ==
    LET start_offset == checked_sub(extent.start, mdat.offset) IN
    IF start_offset = None THEN Err("InvalidData", "mdat does not contain extent")
    ELSE IF extent.kind = "WithLength"
    THEN LET range_len == checked_sub(extent.end, extent.start) IN
         IF range_len = None THEN Err("InvalidData", "range start > end")
         ELSE LET end == checked_add(Unwrap(start_offset), Unwrap(range_len)) IN
              IF end = None THEN Err("InvalidData", "extent end overflow")
              ELSE LET slice == slice_get(mdat.data, Unwrap(start_offset), Unwrap(end)) IN
                   IF slice = None THEN Err("InvalidData", "extent crosses box boundary")
                   ELSE Ok(Unwrap(slice))
    ELSE LET slice == slice_get(mdat.data, Unwrap(start_offset), Len(mdat.data)) IN
         IF slice = None THEN Err("InvalidData", "extent crosses box boundary")
         ELSE Ok(Unwrap(slice))

\* read_avif, the scan of the media-data boxes for one extent: the bytes
\* appended to the item and the boxes as the scan leaves them.
RECURSIVE load_extent(_, _, _)
load_extent(boxes, i, extent) ==
    IF i > Len(boxes)
    THEN Err("InvalidData", "iloc contains an extent that is not in mdat")
    ELSE IF matches_extent(boxes[i], extent)
    THEN Ok([bytes |-> boxes[i].data,
             mdats |-> [boxes EXCEPT ![i].data = <<>>]])
    ELSE IF contains_extent(boxes[i], extent)
    THEN LET r == read_extent(boxes[i], extent) IN
         IF ~r.ok THEN r ELSE Ok([bytes |-> r.val, mdats |-> boxes])
    ELSE load_extent(boxes, i + 1, extent)

\* ------------------------------------------------- alpha item, premultiplied
\* The auxiliary type URN, and NUL.
AlphaUrn == <<117, 114, 110>>
NUL == 0

RECURSIVE position(_, _, _)
position(data, byte, i) ==
    IF i > Len(data) THEN None
    ELSE IF data[i] = byte THEN Some(i)
    ELSE position(data, byte, i + 1)

type_subtype_Whole(aux_data) == <<aux_data, <<>>>>

\* AuxiliaryTypeProperty::type_subtype
type_subtype(aux_data) ==
    LET pos == position(aux_data, NUL, 1) IN
    IF pos # None
    THEN <<SubSeq(aux_data, 1, Unwrap(pos) - 1),
           SubSeq(aux_data, Unwrap(pos) + 1, Len(aux_data))>>
    ELSE <<aux_data, <<>>>>

has_alpha_property(properties, item_id) ==
    \E k \in 1..Len(properties) :
        /\ properties[k].item_id = item_id
        /\ properties[k].property.kind = "AuxiliaryType"
        /\ type_subtype(properties[k].property.data)[1] = AlphaUrn

is_aux_of_primary(iref, primary_item_id) ==
    /\ iref.to_item_id = primary_item_id
    /\ iref.from_item_id # primary_item_id
    /\ iref.item_type = "auxl"

RECURSIVE find_alpha(_, _, _)
find_alpha(m, refs, i) ==
    IF i > Len(refs) THEN None
    ELSE IF is_aux_of_primary(refs[i], m.primary_item_id)
            /\ has_alpha_property(m.properties, refs[i].from_item_id)
    THEN Some(refs[i].from_item_id)
    ELSE find_alpha(m, refs, i + 1)

alpha_item_id_of(m) == find_alpha(m, m.item_references, 1)

premultiplied_alpha_of_AnyTarget(m, alpha) ==
    IF alpha = None THEN FALSE
    ELSE \E k \in 1..Len(m.item_references) :
            /\ m.item_references[k].from_item_id = m.primary_item_id
            /\ m.item_references[k].item_type = "prem"

\* read_avif: the initial value of context.premultiplied_alpha
premultiplied_alpha_of(m, alpha) ==
    IF alpha = None THEN FALSE
    ELSE \E k \in 1..Len(m.item_references) :
            /\ m.item_references[k].from_item_id = m.primary_item_id
            /\ m.item_references[k].to_item_id = Unwrap(alpha)
            /\ m.item_references[k].item_type = "prem"

\* read_avif_meta, the checks after the children have been iterated
RECURSIVE find_info(_, _, _)
find_info(item_infos, id, i) ==
    IF i > Len(item_infos) THEN None
    ELSE IF item_infos[i].item_id = id THEN Some(item_infos[i])
    ELSE find_info(item_infos, id, i + 1)

read_avif_meta_finish_GridAsData(primary, infos, iloc, refs, props) ==
    IF primary = None
    THEN Err("InvalidData", "Required pitm box not present in meta box")
    ELSE IF infos = None THEN Err("InvalidData", "iinf missing")
    ELSE LET item_info == find_info(Unwrap(infos), Unwrap(primary), 1) IN
         IF item_info = None
         THEN Err("InvalidData", "primary_item_id not present in iinf box")
         ELSE IF Unwrap(item_info).item_type # "av01"
         THEN Err("InvalidData", "primary_item_id type is not av01")
         ELSE IF iloc = None THEN Err("InvalidData", "iloc missing")
         ELSE Ok([properties |-> props, item_references |-> refs,
                  primary_item_id |-> Unwrap(primary), iloc_items |-> Unwrap(iloc)])

read_avif_meta_finish(primary, infos, iloc, refs, props) ==
    IF primary = None
    THEN Err("InvalidData", "Required pitm box not present in meta box")
    ELSE IF infos = None THEN Err("InvalidData", "iinf missing")
    ELSE LET item_info == find_info(Unwrap(infos), Unwrap(primary), 1) IN
         IF item_info = None
         THEN Err("InvalidData", "primary_item_id not present in iinf box")
         ELSE IF Unwrap(item_info).item_type # "av01"
         THEN IF Unwrap(item_info).item_type = "grid"
              THEN Err("Unsupported", "Grid-based AVIF collage is not supported")
              ELSE Err("InvalidData", "primary_item_id type is not av01")
         ELSE IF iloc = None THEN Err("InvalidData", "iloc missing")
         ELSE Ok([properties |-> props, item_references |-> refs,
                  primary_item_id |-> Unwrap(primary), iloc_items |-> Unwrap(iloc)])

\* The explored files come in families.  Each family varies one part of the
\* file over all the values listed for it and keeps the rest of the file to
\* the plain layout ftyp, meta (pitm, iinf, iref, iprp, iloc), mdat.
Scopes == {"ftyp", "boxes", "children", "infos", "refs", "props", "iloc", "extents"}

Running == [ok |-> FALSE, val |-> <<>>, kind |-> "Running", why |-> ""]

NoLocal == [primary_item_id |-> None, item_infos |-> None, iloc_items |-> None,
            item_references |-> <<>>, properties |-> <<>>]

\* read_iloc is not running
NoIloc == [pc |-> "idle"]

\* no second call is running beside this one
NoTwin == [turn |-> "single", pre |-> <<>>, post |-> <<>>]

NoBox == [head |-> Hdr("", 0, 0, 0), have |-> 0, body |-> <<>>]
Box(h, have, body) == [head |-> h, have |-> have, body |-> body]

\* AvifData::default()
DefaultAvifData == [primary_item |-> <<>>, alpha_item |-> None,
                    premultiplied_alpha |-> FALSE]

\* no BoxIter of its own stands beside read_avif
\* no AV1 buffer is being parsed
NoObu == [data |-> <<>>, pos |-> 0, pc |-> "idle", skipped |-> <<>>, payload |-> <<>>,
          seq |-> Running, out |-> Running]

NoReader == [len |-> 0, pos |-> 0, open |-> <<>>, h |-> Hdr("", 0, 0, 0),
             op |-> [name |-> "", limit |-> 0, avail |-> 0, at |-> 0], out |-> Running]

Init ==
    /\ rd = NoReader
    /\ tw = NoTwin
    /\ il = NoIloc
    /\ obu = NoObu
    /\ scope \in Scopes
    /\ debug_assertions \in BOOLEAN
    /\ pc = "ftyp"
    /\ offset = 0
    /\ eof = FALSE
    /\ nboxes = 0
    /\ nchild = 0
    /\ cur = NoBox
    /\ meta = None
    /\ mdats = <<>>
    /\ captured = <<>>
    /\ local = NoLocal
    /\ alpha_item_id = None
    /\ context = DefaultAvifData
    /\ loc_i = 0
    /\ ext_j = 0
    /\ result = Running

\* read_avif returns: Err(e) or Ok(context)
Return(r) ==
    /\ pc' = "done"
    /\ result' = r

SeqsUpTo(S, n) == UNION {[1..k -> S] : k \in 0..n}

\* Payload bytes the stream holds for a box that declares p of them: all of
\* them, or one less when the file is cut short inside the box.
Haves(sc, p) == {p} \cup (IF p > 0 /\ sc \in {"ftyp", "boxes"} THEN {p - 1} ELSE {})

\* ----------------------------------------------------------- the first box
Brands == {"avif", "avis", "heic"}
FtypPayloads == {4, 8, 9, 12}
FirstHeaders ==
    PlainHeaders({"ftyp"}, FtypPayloads) \cup PlainHeaders({"meta", "free"}, {8})
        \cup WideHeaders({"ftyp"}, {8}) \cup BadHeaders({"ftyp", "mdat"})
FirstBoxes(sc) ==
    IF sc = "ftyp"
    THEN {<<h, major>> \in (FirstHeaders \cup EofHeaders) \X Brands :
             h.name # "ftyp" => major = "avif"}
    ELSE {<<Hdr("ftyp", MIN_SIZE + 8, 0, 16), "avif">>}

\* read_avif: `if let Some(mut b) = iter.next_box()? { ... }`
ReadFirstBox ==
    /\ pc = "ftyp"
    /\ \E hm \in FirstBoxes(scope) :
        LET h == hm[1]
            major == hm[2]
            nb == next_box(h) IN
        \E have \in (IF nb.ok /\ nb.val # None
                     THEN Haves(scope, Unwrap(nb.val).size - Unwrap(nb.val).offset)
                     ELSE {0}) :
            /\ cur' = Box(h, have, [major_brand |-> major])
            /\ nboxes' = 1
            /\ IF ~nb.ok THEN Return(nb) /\ UNCHANGED <<offset, eof>>
               ELSE IF nb.val = None
               THEN /\ pc' = "top"
                    /\ eof' = TRUE
                    /\ offset' = offset + h.hbytes
                    /\ UNCHANGED result
               ELSE LET b == Unwrap(nb.val)
                        r == read_avif_ftyp(b, have, major) IN
                    IF ~r.ok THEN Return(r) /\ UNCHANGED <<offset, eof>>
                    ELSE /\ pc' = "top"
                         /\ offset' = offset + b.size
                         /\ UNCHANGED <<eof, result>>
    /\ UNCHANGED <<il, tw, obu, rd, scope, debug_assertions, nchild, meta, mdats, captured, local, alpha_item_id,
                   context, loc_i, ext_j>>

\* ------------------------------------------------- the explored meta boxes
FullBox(v, f) == [version |-> v, flags |-> f]

\* pitm
Pitm(v, f, id, u) == [version |-> v, flags |-> f, item_id |-> id, unread |-> u]
PitmTokens(sc) ==
    IF sc = "children"
    THEN {Pitm(0, 0, 1, 0), Pitm(1, 0, 1, 0), Pitm(2, 0, 1, 0), Pitm(0, 1, 1, 0),
          Pitm(0, 0, 1, 1)}
    ELSE IF sc \in {"infos", "iloc"} THEN {Pitm(0, 0, id, 0) : id \in 1..2}
    ELSE {Pitm(0, 0, 1, 0)}

\* iinf
ItemTypes == {"av01", "grid", "mime"}
Infe(n, v, id, p, ty) ==
    [name |-> n, version |-> v, item_id |-> id, item_protection_index |-> p,
     item_type |-> ty]
Iinf(v, f, es, u) == [version |-> v, flags |-> f, entries |-> es, unread |-> u]
AllAv01 == [i \in Ids |-> Infe("infe", 2, i, 0, "av01")]
IinfTokens(sc) ==
    IF sc = "children"
    THEN {Iinf(0, 0, AllAv01, 0), Iinf(1, 0, AllAv01, 0)}
    ELSE IF sc = "infos"
    THEN {Iinf(v, 0, es, 0) :
            v \in {0, 1},
            es \in SeqsUpTo({Infe("infe", 2, id, 0, ty) : id \in 1..2, ty \in ItemTypes},
                            MaxInfe)}
         \cup {Iinf(2, 0, AllAv01, 0), Iinf(0, 1, AllAv01, 0), Iinf(0, 0, AllAv01, 1)}
         \cup {Iinf(0, 0, <<e>> \o AllAv01, 0) :
                 e \in {Infe("free", 2, 1, 0, "av01"), Infe("infe", 1, 1, 0, "av01"),
                        Infe("infe", 3, 1, 0, "grid"), Infe("infe", 2, 1, 1, "av01")}}
    ELSE {Iinf(0, 0, AllAv01, 0)}

\* iref
RefTypes == {"auxl", "prem", "dimg"}
RefBox(ty, from, tos, u) == [name |-> ty, from_item_id |-> from, tos |-> tos, unread |-> u]
Iref(v, f, bs, u) == [version |-> v, flags |-> f, boxes |-> bs, unread |-> u]
CanonRefs == <<RefBox("auxl", 2, <<1>>, 0)>>
IrefTokens(sc, room) ==
    IF sc = "refs"
    THEN {Iref(0, 0, bs, 0) :
            bs \in SeqsUpTo({RefBox(ty, from, <<to>>, 0) :
                                ty \in RefTypes, from \in Ids, to \in Ids}, room)}
         \cup {Iref(1, 0, <<RefBox("auxl", 2, [i \in 1..room |-> 1], 0)>>, 0)}
    ELSE IF sc = "children"
    THEN {Iref(0, 0, CanonRefs, 0), Iref(2, 0, CanonRefs, 0), Iref(0, 1, CanonRefs, 0),
          Iref(0, 0, CanonRefs, 1), Iref(0, 0, <<RefBox("auxl", 2, <<1>>, 1)>>, 0)}
    ELSE IF sc = "props"
    THEN {Iref(0, 0, <<RefBox("auxl", 2, <<1>>, 0), RefBox("auxl", 3, <<1>>, 0)>>, 0)}
    ELSE {Iref(0, 0, CanonRefs \o <<RefBox("prem", 1, <<2>>, 0)>>, 0)}

\* iprp
\* auxiliary type strings: the URN with and without its terminator, with a
\* subtype after it, as a proper prefix of a longer string, after a NUL
AuxList == <<AlphaUrn \o <<NUL>>, AlphaUrn, AlphaUrn \o <<120>>, AlphaUrn \o <<NUL, 120>>,
             <<NUL>> \o AlphaUrn>>
PropBox(n, v, f, d, u) == [name |-> n, version |-> v, flags |-> f, data |-> d, unread |-> u]
Ipco(ps) ==
    [name |-> "ipco", props |-> ps, version |-> 0, flags |-> 0, entries |-> <<>>, unread |-> 0]
Assoc(e, ix) == [essential |-> e, property_index |-> ix]
IpmaEntry(id, as) == [item_id |-> id, assocs |-> as]
Ipma(v, f, es) ==
    [name |-> "ipma", props |-> <<>>, version |-> v, flags |-> f, entries |-> es, unread |-> 0]
\* an ipma box that declares one byte more than its entries take, last in
\* its iprp box: the iterator of iprp finds that byte and no header
IpmaUnread == [Ipma(0, 0, <<IpmaEntry(2, <<Assoc(TRUE, 1)>>)>>) EXCEPT !.unread = 1]
Iprp(bs, u) == [boxes |-> bs, unread |-> u]

\* the property container of the explored files: two auxiliary types, an
\* unrecognised property, a pixel information box
IpcoCanon ==
    Ipco(<<PropBox("auxC", 0, 0, AlphaUrn \o <<NUL>>, 0),
           PropBox("auxC", 0, 0, AlphaUrn \o <<120>>, 0),
           PropBox("colr", 0, 0, <<>>, 0),
           PropBox("pixi", 0, 0, <<8, 8, 8>>, 0)>>)
IpcoAux ==
    Ipco([i \in 1..Len(AuxList) |-> PropBox("auxC", 0, 0, AuxList[i], 0)]
            \o <<PropBox("pixi", 0, 0, <<8, 8, 8>>, 0)>>)
CanonIprp == Iprp(<<IpcoCanon, Ipma(0, 0, <<IpmaEntry(2, <<Assoc(TRUE, 1)>>)>>)>>, 0)
\* files with HDR metadata (tests/hdr-clli.avif, hdr-mdcv.avif and
\* hdr-clli-mdcv.avif): a content light level box (two 16-bit values), a
\* mastering display colour volume box (three primaries pairs, a white point
\* pair, max and min luminance), each associated with the primary item
ClliBox == PropBox("clli", 0, 0, <<1000, 400>>, 0)
MdcvBox == PropBox("mdcv", 0, 0, <<8500, 39850, 6550, 2300, 35400, 14600, 15635, 16450,
                                   10000000, 50>>, 0)
HdrIprp(boxes) ==
    Iprp(<<Ipco(boxes \o <<PropBox("pixi", 0, 0, <<10, 10, 10>>, 0)>>),
           Ipma(0, 0, <<IpmaEntry(1, [i \in 1..(Len(boxes) + 1) |-> Assoc(i <= Len(boxes), i)])>>)>>,
         0)
HdrTokens == {HdrIprp(<<ClliBox>>), HdrIprp(<<MdcvBox>>), HdrIprp(<<ClliBox, MdcvBox>>)}
IprpTokens(sc) ==
    IF sc = "refs"
    THEN {Iprp(<<IpcoCanon,
                 Ipma(0, 0, <<IpmaEntry(2, <<Assoc(FALSE, p)>>),
                              IpmaEntry(3, <<Assoc(FALSE, q)>>)>>)>>,
               0) : p \in 1..2, q \in 1..2}
    ELSE IF sc = "props"
    THEN {Iprp(<<IpcoAux,
                 Ipma(0, 0, [k \in 1..Len(as) |-> IpmaEntry(as[k][1], <<Assoc(FALSE, as[k][2])>>)])>>,
               0) : as \in SeqsUpTo((2..3) \X (0..(Len(AuxList) + 2)), MaxAssoc)}
         \cup {Iprp(<<IpcoCanon, Ipma(1, 1, <<IpmaEntry(id, <<Assoc(TRUE, ix), Assoc(FALSE, 1)>>)>>)>>, 0) :
                 id \in 2..3, ix \in 0..5}
         \cup {Iprp(<<Ipma(0, 0, <<IpmaEntry(2, <<Assoc(TRUE, 1)>>)>>), IpcoCanon>>, 0),
               Iprp(<<IpcoAux, IpcoCanon, Ipma(0, 0, <<IpmaEntry(2, <<Assoc(TRUE, 2)>>)>>)>>, 0),
               Iprp(<<IpcoCanon, Ipma(0, 0, <<IpmaEntry(2, <<Assoc(TRUE, 2)>>)>>),
                      Ipma(0, 0, <<IpmaEntry(3, <<Assoc(TRUE, 1)>>)>>)>>, 0)}
         \cup HdrTokens
    ELSE IF sc = "children"
    THEN {CanonIprp, Iprp(CanonIprp.boxes, 1),
          Iprp(<<IpcoCanon, [IpcoCanon EXCEPT !.name = "free"]>>, 0),
          Iprp(<<Ipco(<<PropBox("auxC", 1, 0, AlphaUrn, 0)>>)>>, 0),
          Iprp(<<Ipco(<<PropBox("auxC", 0, 1, AlphaUrn, 0)>>)>>, 0),
          Iprp(<<Ipco(<<PropBox("pixi", 1, 0, <<8>>, 0)>>)>>, 0),
          Iprp(<<Ipco(<<PropBox("pixi", 0, 0, <<8>>, 1)>>)>>, 0),
          Iprp(<<IpcoCanon, IpmaUnread>>, 1),
          Iprp(<<Ipco(<<PropBox("pixi", 0, 0, [i \in 1..(PIXI_CAPACITY + 1) |-> 8], 0)>>)>>, 0)}
    ELSE {CanonIprp}

\* iloc
Extent(o, l) == [extent_offset |-> o, extent_length |-> l]
IlocItem(id, cm, dri, base, es) ==
    [item_id |-> id, construction_method |-> cm, data_reference_index |-> dri,
     base_offset |-> base, extents |-> es]
Iloc(v, f, os, ls, bs, its, rem) ==
    [version |-> v, flags |-> f, offset_size |-> os, length_size |-> ls,
     base_offset_size |-> bs, items |-> its, remaining |-> rem]

\* File positions the extents of the explored files refer to: the payload
\* of each media-data box read so far and of a media-data box that follows
\* a meta box ending with this iloc box.
MaxMdats(sc) == IF sc = "extents" THEN 2 ELSE 1
Following(off) == off + MIN_SIZE + BodyLen + MIN_SIZE
Anchors(sc, boxes, off) ==
    {boxes[k].offset : k \in 1..Len(boxes)}
        \cup (IF Len(boxes) < MaxMdats(sc) THEN {Following(off)} ELSE {})
ExtentChoices(anchors) ==
    {Extent(a + d, l) : a \in anchors, d \in 0..MaxMdatLen,
                        l \in (0..MaxMdatLen) \cup {U64Max}}

\* the plain layout: three items of one byte each in the first media-data box
PlainItems(boxes, off) ==
    LET a == IF boxes # <<>> THEN boxes[1].offset ELSE Following(off) IN
    <<IlocItem(1, 0, 0, 0, <<Extent(a, 1)>>), IlocItem(2, 0, 0, 0, <<Extent(a + 1, 1)>>),
      IlocItem(3, 0, 0, 0, <<Extent(a, 1)>>)>>

IlocTokens(sc, boxes, off) ==
    IF sc = "extents"
    THEN \* the primary item with up to MaxExtents extents
         {Iloc(1, 0, 8, 8, 8, <<IlocItem(1, 0, 0, 0, es)>>, 0) :
             es \in SeqsUpTo(ExtentChoices(Anchors(sc, boxes, off)), MaxExtents)}
         \* the primary item and the alpha item with one extent each
         \cup {Iloc(1, 0, 8, 8, 8,
                    <<IlocItem(ids[1], 0, 0, 0, <<e1>>), IlocItem(ids[2], 0, 0, 0, <<e2>>)>>, 0) :
                 ids \in {<<1, 2>>, <<2, 1>>},
                 e1 \in ExtentChoices(Anchors(sc, boxes, off)),
                 e2 \in ExtentChoices(Anchors(sc, boxes, off))}
    ELSE IF sc = "iloc"
    THEN LET a == Following(off) IN
         \* versions, flags, field sizes, unread bytes
         {Iloc(v, f, 8, 8, 8, PlainItems(boxes, off), 0) : v \in 0..3, f \in {0, 1}}
         \cup {Iloc(0, 0, os, ls, bs, <<IlocItem(1, 0, 0, a, <<Extent(1, 1)>>)>>, rem) :
                 os \in {0, 2, 4}, ls \in {0, 4}, bs \in {0, 4}, rem \in {0, 1}}
         \* item ids, construction methods, data references, extent counts
         \cup {Iloc(v, 0, 8, 8, 8, <<IlocItem(id, cm, dri, 0, es)>>, 0) :
                 v \in {0, 1}, id \in Ids, cm \in 0..3, dri \in {0, 1},
                 es \in {<<>>, <<Extent(a, 0)>>}}
         \cup {Iloc(1, 0, 8, 8, 8,
                    <<IlocItem(ids[1], cms[1], 0, 0, <<Extent(a, 1)>>),
                      IlocItem(ids[2], cms[2], 0, 0, <<Extent(a + 1, 1)>>)>>, 0) :
                 ids \in {<<1, 2>>, <<2, 1>>, <<1, 1>>, <<3, 1>>, <<2, 3>>},
                 cms \in {0, 1} \X {0, 1}}
         \cup {Iloc(1, 0, 8, 8, 8, <<>>, 0)}
         \* a base offset added to the extent offset
         \cup {Iloc(v, 0, 8, 8, 8, <<IlocItem(1, 0, 0, base, <<Extent(o, l)>>)>>, 0) :
                 v \in {0, 2}, base \in {1, U64Max}, o \in {a - 1, 1}, l \in {0, 1, U64Max}}
    ELSE {Iloc(0, 0, 8, 8, 8, PlainItems(boxes, off), 0)}

\* ------------------------------------------------------- top-level boxes
\* In the family of the box layouts the top-level boxes come in any order;
\* in the family of the extents media-data boxes come before and after meta;
\* the other families keep the plain layout.
PlainTop == scope \notin {"boxes", "extents"}

MoreTop == pc = "top" /\ ~eof /\ nboxes < MaxTopBoxes

TopFrame == UNCHANGED <<il, tw, obu, rd, scope, debug_assertions, nchild, local, alpha_item_id, context, loc_i, ext_j>>

\* read_avif: next_box() returns None, the loop over the top-level boxes ends
TopEnd ==
    /\ pc = "top"
    /\ scope = "extents" => meta # None
    /\ PlainTop /\ ~eof => meta # None /\ mdats # <<>>
    /\ \E h \in (IF eof \/ scope # "boxes" THEN {Hdr("free", 8, 0, 0)} ELSE EofHeaders) :
        /\ next_box(h) = Ok(None)
        /\ cur' = Box(h, 0, <<>>)
        /\ offset' = offset + h.hbytes
    /\ eof' = TRUE
    /\ IF meta = None
       THEN Return(Err("InvalidData", "missing meta"))
       ELSE pc' = "alpha" /\ UNCHANGED result
    /\ UNCHANGED <<nboxes, meta, mdats, captured>>
    /\ TopFrame

\* read_avif: next_box() fails on the header
TopBadHeader ==
    /\ MoreTop /\ scope = "boxes"
    /\ \E h \in BadHeaders({"mdat", "free"}) :
        /\ ~next_box(h).ok
        /\ cur' = Box(h, 0, <<>>)
        /\ Return(next_box(h))
    /\ nboxes' = nboxes + 1
    /\ UNCHANGED <<offset, eof, meta, mdats, captured>>
    /\ TopFrame

Duplicate_Unsupported(why) == Err("Unsupported", why)

\* read_avif, read_avif_meta: a box that may occur once occurs again
Duplicate(why) == Err("InvalidData", why)

\* read_avif: BoxType::MetadataBox, up to the loop of read_avif_meta
TopMeta ==
    /\ MoreTop
    /\ scope # "boxes" => meta = None
    /\ PlainTop => mdats = <<>>
    /\ \E t \in (IF scope = "boxes" THEN {FullBox(0, 0), FullBox(1, 0), FullBox(0, 1)}
                 ELSE {FullBox(0, 0)}) :
        LET h == Hdr("meta", MIN_SIZE + 4, 0, 16)
            v == read_fullbox_version_no_flags(t) IN
        /\ cur' = Box(h, 4, t)
        /\ IF meta # None
           THEN /\ Return(Duplicate("There should be zero or one meta boxes"))
                /\ UNCHANGED offset
           ELSE IF ~v.ok THEN Return(v) /\ UNCHANGED offset
           ELSE IF v.val # 0
           THEN Return(Err("Unsupported", "unsupported meta version")) /\ UNCHANGED offset
           ELSE /\ pc' = "meta"
                /\ offset' = offset + MIN_SIZE + 4
                /\ UNCHANGED result
    /\ nboxes' = nboxes + 1
    /\ nchild' = 0
    /\ local' = NoLocal
    /\ UNCHANGED <<il, tw, obu, rd, scope, debug_assertions, eof, meta, mdats, captured, alpha_item_id, context, loc_i, ext_j>>

\* read_avif: BoxType::MediaDataBox, then check_parser_state
TopMdat ==
    /\ MoreTop
    /\ Len(captured) < MaxMdats(scope)
    /\ PlainTop => meta # None
    /\ \E h \in PlainHeaders({"mdat"}, IF scope = "boxes" THEN 0..MaxMdatLen
                                       ELSE IF scope = "extents" THEN 1..MaxMdatLen
                                       ELSE {MaxMdatLen})
                  \cup (IF scope = "boxes" THEN WideHeaders({"mdat"}, {1}) ELSE {}) :
       \E have \in Haves(scope, content_limit(Unwrap(next_box(h).val))) :
        LET b == Unwrap(next_box(h).val)
            bytes_left == content_limit(b)
            at == offset + b.offset
            box == [offset |-> at, data |-> FileBytes(at, have)]
            c == check_parser_state(bytes_left - have) IN
        /\ cur' = Box(h, have, <<>>)
        /\ offset' = at + have
        /\ eof' = (have < bytes_left)
        /\ IF bytes_left > 0
           THEN mdats' = Append(mdats, box) /\ captured' = Append(captured, box)
           ELSE UNCHANGED <<mdats, captured>>
        /\ IF ~c.ok THEN Return(c) ELSE UNCHANGED <<pc, result>>
    /\ nboxes' = nboxes + 1
    /\ UNCHANGED meta
    /\ TopFrame

\* read_avif: any other box, skip_box_content, then check_parser_state
TopSkip ==
    /\ MoreTop /\ scope = "boxes"
    /\ \E h \in PlainHeaders({"free", "ftyp"}, {0, 1}) \cup WideHeaders({"free"}, {1})
                  \cup UuidHeaders :
        LET b == Unwrap(next_box(h).val)
            bytes_left == content_limit(b) IN
        \E have \in Haves(scope, bytes_left) :
            LET sk == skip_box_content(b, bytes_left, have)
                c == IF sk.ok THEN check_parser_state(bytes_left - sk.val) ELSE sk IN
            \* a file that ends inside the header holds no payload
            /\ h.hbytes < b.offset + bytes_left => have = Min(bytes_left, h.hbytes - b.offset)
            /\ cur' = Box(h, have, <<>>)
            /\ offset' = offset + b.offset + have
            /\ eof' = (have < bytes_left)
            /\ IF ~c.ok THEN Return(c) ELSE UNCHANGED <<pc, result>>
    /\ nboxes' = nboxes + 1
    /\ UNCHANGED <<meta, mdats, captured>>
    /\ TopFrame

\* ------------------------------------------------- the children of meta
\* Every child is read with a complete header declaring BodyLen payload
\* bytes for its fields and `unread` bytes after them.  The parser of a box
\* without children leaves the bytes after the fields unread; the parser of
\* a box with children iterates to the end of the box, and leaves bytes
\* unread only when the box declares more than its parent holds.
ChildHdr(name, unread) == Hdr(name, MIN_SIZE + BodyLen + unread, 0, 16)

MoreChildren == pc = "meta" /\ nchild < MaxMetaChildren

\* In the family of the children the boxes inside meta come in any order
\* and any number; the other families keep the plain layout, with a second
\* iref box in the family of the references.
MayRead(name) ==
    LET last == cur.head.name IN
    \/ scope = "children"
    \/ name = "pitm" /\ last = "meta"
    \/ name = "iinf" /\ last = "pitm"
    \/ name = "iref" /\ (last = "iinf" \/ (scope = "refs" /\ last = "iref"))
    \/ name = "iprp" /\ last = "iref"
    \/ name = "iloc" /\ last = "iprp"

MetaFrame == UNCHANGED <<il, tw, obu, rd, scope, debug_assertions, eof, nboxes, meta, mdats, captured, alpha_item_id,
                         context, loc_i, ext_j>>

\* The child has been handled by its parser with outcome r; check_parser_state
\* follows.  `upd` is the new value of the local variables when r is Ok.
MissingBytes == IF scope = "children" THEN {0, 1} ELSE {0}

\* `extra` bytes follow the fields in the file, `missing` more are declared,
\* `left` is the limit of the sub-reader when the parser has returned.
AfterChild(name, t, extra, missing, left, r, upd) ==
    LET c == check_parser_state(left) IN
    /\ cur' = Box(ChildHdr(name, extra + missing), BodyLen + extra, t)
    /\ nchild' = nchild + 1
    /\ IF ~r.ok THEN Return(r) /\ UNCHANGED <<local, offset>>
       ELSE IF ~c.ok THEN Return(c) /\ UNCHANGED <<local, offset>>
       ELSE /\ local' = upd
            /\ offset' = offset + MIN_SIZE + BodyLen + extra
            /\ UNCHANGED <<pc, result>>
    /\ MetaFrame

MetaPitm ==
    /\ MoreChildren /\ MayRead("pitm")
    /\ \E t \in PitmTokens(scope) :
        LET r == IF local.primary_item_id # None
                 THEN Duplicate("There should be zero or one pitm boxes")
                 ELSE read_pitm(t) IN
        AfterChild("pitm", t, t.unread, 0, t.unread, r,
                   [local EXCEPT !.primary_item_id = Some(r.val)])

MetaIinf ==
    /\ MoreChildren /\ MayRead("iinf")
    /\ \E t \in IinfTokens(scope), missing \in MissingBytes :
        LET r == IF local.item_infos # None
                 THEN Duplicate("There should be zero or one iinf boxes")
                 ELSE read_iinf(t) IN
        AfterChild("iinf", t, t.unread, missing, after_iter(t.unread, missing), r,
                   [local EXCEPT !.item_infos = Some(r.val)])

MetaIloc ==
    /\ MoreChildren /\ MayRead("iloc")
    /\ \E t \in IlocTokens(scope, mdats, offset) :
        LET r == IF local.iloc_items # None
                 THEN Duplicate("There should be zero or one iloc boxes")
                 ELSE read_iloc(t) IN
        \* read_into_try_vec leaves nothing of the box unread
        AfterChild("iloc", t, 0, 0, 0, r, [local EXCEPT !.iloc_items = Some(r.val)])

MetaIref ==
    /\ MoreChildren /\ MayRead("iref")
    /\ Len(local.item_references) < MaxRefs
    /\ \E t \in IrefTokens(scope, MaxRefs - Len(local.item_references)),
          missing \in MissingBytes :
        LET r == read_iref(t) IN
        AfterChild("iref", t, t.unread, missing, after_iter(t.unread, missing), r,
                   [local EXCEPT !.item_references = local.item_references \o r.val])

MetaIprp ==
    /\ MoreChildren /\ MayRead("iprp")
    /\ \E t \in IprpTokens(scope), missing \in MissingBytes :
        LET r == read_iprp(t) IN
        AfterChild("iprp", t, t.unread, missing, after_iter(t.unread, missing), r,
                   [local EXCEPT !.properties = r.val])

\* any other child: skip_box_content
MetaSkip ==
    /\ MoreChildren /\ scope = "children"
    /\ \E missing \in MissingBytes :
        LET b == Unwrap(next_box(ChildHdr("free", missing)).val)
            sk == skip_box_content(b, content_limit(b), BodyLen) IN
        AfterChild("free", <<>>, 0, missing, content_limit(b) - sk.val, sk, local)

\* next_box() fails on the header of a child
MetaBadHeader ==
    /\ MoreChildren /\ scope = "children"
    /\ \E h \in BadHeaders({"iloc"}) :
        /\ cur' = Box(h, 0, <<>>)
        /\ Return(next_box(h))
    /\ nchild' = nchild + 1
    /\ UNCHANGED <<local, offset>>
    /\ MetaFrame

\* next_box() returns None: read_avif_meta checks what it has collected and
\* returns; read_avif stores the result and calls check_parser_state on the
\* meta box.  The meta box ends with `unread` bytes that are no header and
\* declares `missing` bytes more than the file holds.
MetaEnd ==
    /\ pc = "meta"
    /\ scope = "children" \/ cur.head.name = "iloc"
    /\ \E unread \in {0, 4}, missing \in MissingBytes :
        LET r == read_avif_meta_finish(local.primary_item_id, local.item_infos,
                     local.iloc_items, local.item_references, local.properties)
            h == Hdr("free", 8, 0, unread)
            c == check_parser_state(after_iter(unread, missing)) IN
        /\ scope # "children" => unread = 0
        /\ next_box(h) = Ok(None)
        /\ cur' = Box(h, 0, <<>>)
        /\ eof' = (missing > 0)
        /\ IF ~r.ok THEN Return(r) /\ UNCHANGED <<meta, offset>>
           ELSE /\ meta' = Some(r.val)
                /\ offset' = offset + header_bytes(h)
                /\ IF ~c.ok THEN Return(c) ELSE pc' = "top" /\ UNCHANGED result
    /\ local' = NoLocal
    /\ nchild' = 0
    /\ UNCHANGED <<il, tw, obu, rd, scope, debug_assertions, nboxes, mdats, captured, alpha_item_id, context,
                   loc_i, ext_j>>

\* ------------------------------------------------------ after the boxes
\* read_avif: alpha_item_id and context.premultiplied_alpha
FindAlpha ==
    /\ pc = "alpha"
    /\ LET m == Unwrap(meta)
           alpha == alpha_item_id_of(m) IN
        /\ alpha_item_id' = alpha
        /\ context' = [DefaultAvifData EXCEPT
                          !.premultiplied_alpha = premultiplied_alpha_of(m, alpha)]
    /\ pc' = "load"
    /\ loc_i' = 1
    /\ ext_j' = 0
    /\ UNCHANGED <<il, tw, obu, rd, scope, debug_assertions, offset, eof, nboxes, nchild, cur, meta, mdats, captured,
                   local, result>>

IlocItems == Unwrap(meta).iloc_items
PrimaryId == Unwrap(meta).primary_item_id

LoadFrame == UNCHANGED <<il, tw, obu, rd, scope, debug_assertions, offset, eof, nboxes, nchild, cur, meta, captured,
                         local, alpha_item_id>>

check_construction_method_Any(loc) == Ok(<<>>)

\* read_avif: `if loc.construction_method != ConstructionMethod::File`
check_construction_method(loc) ==
    IF loc.construction_method # "File"
    THEN Err("Unsupported", "unsupported construction_method")
    ELSE Ok(<<>>)

\* the extents of the item come next, or the next item when it has none
Enter(loc) ==
    IF loc.extents = <<>> THEN loc_i' = loc_i + 1 /\ ext_j' = 0
    ELSE ext_j' = 1 /\ UNCHANGED loc_i

\* read_avif: the head of `for loc in meta.iloc_items.iter()`: pick the
\* buffer of the item, or continue; reject other construction methods
LoadItem ==
    /\ pc = "load" /\ ext_j = 0 /\ loc_i <= Len(IlocItems)
    /\ LET loc == IlocItems[loc_i] IN
        IF loc.item_id = PrimaryId
        THEN /\ IF ~check_construction_method(loc).ok
                THEN Return(check_construction_method(loc)) /\ UNCHANGED <<loc_i, ext_j>>
                ELSE Enter(loc) /\ UNCHANGED <<pc, result>>
             /\ UNCHANGED context
        ELSE IF Some(loc.item_id) = alpha_item_id
        THEN /\ context' = [context EXCEPT !.alpha_item =
                               IF @ = None THEN Some(<<>>) ELSE @]
             /\ IF ~check_construction_method(loc).ok
                THEN Return(check_construction_method(loc)) /\ UNCHANGED <<loc_i, ext_j>>
                ELSE Enter(loc) /\ UNCHANGED <<pc, result>>
        ELSE /\ loc_i' = loc_i + 1
             /\ UNCHANGED <<pc, result, ext_j, context>>
    /\ UNCHANGED mdats
    /\ LoadFrame

\* read_avif: one turn of `for extent in loc.extents.iter()`
LoadExtent ==
    /\ pc = "load" /\ ext_j > 0
    /\ LET loc == IlocItems[loc_i]
           extent == loc.extents[ext_j]
           r == load_extent(mdats, 1, extent) IN
        IF ~r.ok THEN Return(r) /\ UNCHANGED <<mdats, context, loc_i, ext_j>>
        ELSE /\ mdats' = r.val.mdats
             /\ context' = IF loc.item_id = PrimaryId
                           THEN [context EXCEPT !.primary_item = @ \o r.val.bytes]
                           ELSE [context EXCEPT !.alpha_item =
                                                   Some(Unwrap(@) \o r.val.bytes)]
             /\ IF ext_j < Len(loc.extents)
                THEN ext_j' = ext_j + 1 /\ UNCHANGED loc_i
                ELSE ext_j' = 0 /\ loc_i' = loc_i + 1
             /\ UNCHANGED <<pc, result>>
    /\ LoadFrame

\* read_avif: Ok(context)
Finish ==
    /\ pc = "load" /\ ext_j = 0 /\ loc_i > Len(IlocItems)
    /\ Return(Ok(<<>>))
    /\ UNCHANGED <<mdats, context, loc_i, ext_j>>
    /\ LoadFrame

Next ==
    \/ ReadFirstBox
    \/ TopEnd \/ TopBadHeader \/ TopMeta \/ TopMdat \/ TopSkip
    \/ MetaPitm \/ MetaIinf \/ MetaIloc \/ MetaIref \/ MetaIprp \/ MetaSkip
    \/ MetaBadHeader \/ MetaEnd
    \/ FindAlpha \/ LoadItem \/ LoadExtent \/ Finish

Spec == Init /\ [][Next]_vars

\* ============================================ BoxIter, BMFFBox and Take
\* The second specification drives a BoxIter by hand over a stream of any
\* length: boxes are opened inside boxes, read through, read to the end and
\* dropped in any order, with headers of any declared size.
MaxDepth == 2           \* sub-readers open inside each other
MaxStream == 26         \* bytes of the longest stream
MaxRead == 2            \* bytes asked for by one read

\* usize and isize of the target: 64 bits, as u64
USIZE_BITS == U64Bits
ISIZE_MAX == 2^(USIZE_BITS - 1) - 1

take_read_Unbounded(open, n, stream) == Min(n, stream)

\* Read::read of n bytes through the open sub-readers, the innermost last:
\* every Take hands on min(n, limit), the stream gives what it has.
RECURSIVE take_read(_, _, _)
take_read(open, n, stream) ==
    IF open = <<>> THEN Min(n, stream)
    ELSE take_read(SubSeq(open, 1, Len(open) - 1), Min(n, open[Len(open)].limit), stream)

\* Take: the limit of every sub-reader the bytes came through goes down
advance(open, got) ==
    [k \in 1..Len(open) |-> [open[k] EXCEPT !.limit = @ - got, !.taken = @ + got]]

read_into_try_vec_NoReserve(limit, avail, alloc_ok) == Ok(Min(limit, avail))

\* BMFFBox::read_into_try_vec on a sub-reader with this limit, the readers
\* under it able to supply `avail` bytes: try_reserve_exact(limit as usize)
\* fails above isize::MAX and when the allocator refuses; read_to_end then
\* runs to the limit or the end.  Ok carries the number of bytes read.
read_into_try_vec(limit, avail, alloc_ok) ==
    IF (limit % 2^USIZE_BITS) > ISIZE_MAX \/ ~alloc_ok THEN Err("Io", "OutOfMemory")
    ELSE Ok(Min(limit, avail))

\* streams that end inside a header, inside a box, and after the boxes
RdStreams == {0, 5, 12, MaxStream}
\* headers with the defective sizes, the least sizes and sizes beyond the
\* stream; uuid boxes with and without room for the extended type
RdHeaders ==
    {Hdr("free", s, 0, 0) : s \in {0, 7, 8, 10, 17}}
        \cup {Hdr("free", 1, s, 0) : s \in {15, 16, 18, U64Max}}
        \cup {Hdr("uuid", s, 0, 0) : s \in {12, 24, 26}}
        \cup {Hdr("uuid", 1, 34, 0)}

ReaderInit ==
    /\ \E len \in RdStreams : rd = [NoReader EXCEPT !.len = len]
    /\ tw = NoTwin
    /\ il = NoIloc
    /\ obu = NoObu
    /\ scope = "ftyp"
    /\ debug_assertions = FALSE
    /\ pc = "ftyp"
    /\ offset = 0
    /\ eof = FALSE
    /\ nboxes = 0
    /\ nchild = 0
    /\ cur = NoBox
    /\ meta = None
    /\ mdats = <<>>
    /\ captured = <<>>
    /\ local = NoLocal
    /\ alpha_item_id = None
    /\ context = DefaultAvifData
    /\ loc_i = 0
    /\ ext_j = 0
    /\ result = Running

RdOp(name, limit, avail) == [name |-> name, limit |-> limit, avail |-> avail, at |-> rd.pos]

\* BoxIter::next_box on the innermost open box, or on the stream
RdNextBox ==
    /\ Len(rd.open) < MaxDepth
    /\ \E t \in RdHeaders :
        LET avail == take_read(rd.open, MIN_LARGE_SIZE + UUID_SIZE, rd.len - rd.pos)
            h == [t EXCEPT !.hbytes = avail]
            nb == next_box(h)
            got == header_bytes(h)
            open == advance(rd.open, got) IN
        rd' = [rd EXCEPT
                 !.pos = @ + got, !.h = h, !.out = nb,
                 !.op = RdOp("next_box", 0, avail),
                 !.open = IF nb.ok /\ nb.val # None
                          THEN Append(open, [head |-> Unwrap(nb.val),
                                             limit |-> content_limit(Unwrap(nb.val)),
                                             taken |-> 0])
                          ELSE open]
    /\ UNCHANGED <<parse_vars, obu, tw, il>>

\* BMFFBox::read: up to n bytes through the innermost open box
RdRead ==
    /\ rd.open # <<>>
    /\ \E n \in 1..MaxRead :
        LET got == take_read(rd.open, n, rd.len - rd.pos) IN
        rd' = [rd EXCEPT !.pos = @ + got, !.open = advance(@, got),
                         !.op = RdOp("read", n, got),
                         !.out = Ok(FileBytes(rd.pos, got))]
    /\ UNCHANGED <<parse_vars, obu, tw, il>>

\* BMFFBox::read_into_try_vec on the innermost open box
RdReadToEnd ==
    /\ rd.open # <<>>
    /\ \E alloc_ok \in BOOLEAN :
        LET limit == rd.open[Len(rd.open)].limit
            avail == take_read(rd.open, limit, rd.len - rd.pos)
            r == read_into_try_vec(limit, avail, alloc_ok) IN
        rd' = IF r.ok
              THEN [rd EXCEPT !.pos = @ + r.val, !.open = advance(@, r.val),
                              !.op = RdOp("read_into_try_vec", limit, avail),
                              !.out = Ok(FileBytes(rd.pos, r.val))]
              ELSE [rd EXCEPT !.op = RdOp("read_into_try_vec", limit, avail), !.out = r]
    /\ UNCHANGED <<parse_vars, obu, tw, il>>

\* Drop for BMFFBox: the bytes left in the box stay in the stream
RdDrop ==
    /\ rd.open # <<>>
    /\ rd' = [rd EXCEPT !.open = SubSeq(@, 1, Len(@) - 1),
                        !.op = RdOp("drop", rd.open[Len(rd.open)].limit, 0)]
    /\ UNCHANGED <<parse_vars, obu, tw, il>>

ReaderNext == RdNextBox \/ RdRead \/ RdReadToEnd \/ RdDrop

ReaderSpec == ReaderInit /\ [][ReaderNext]_vars


\* ====================================================== obu.rs: parse_obu
MaxObus == 3            \* OBUs of a walked buffer
MaxSeqLen == 12         \* bytes of a sequence header OBU

\* The value v, computed once, handed to F
Eval(v, F(_)) == CHOOSE r \in {F(x) : x \in {v}} : TRUE

\* bitreader::BitReader over data, big-endian bit order: bit i of the buffer
bit_at(data, i) == (data[(i \div 8) + 1] \div 2^(7 - (i % 8))) % 2

RECURSIVE read_value(_, _, _)
read_value(data, p, n) ==
    IF n = 0 THEN 0 ELSE 2 * read_value(data, p, n - 1) + bit_at(data, p + n - 1)

\* The position of a BitReader that has failed with NotEnoughData; every
\* read after it is not executed ('?'), so the position stays there.
TRUNCATED == -1

\* BitReader::read_u8 / read_u16 / read_u32 / read_bool of n bits at bit p:
\* the position after the read, and the value read
after(data, p, n) ==
    Eval(p, LAMBDA q : IF q = TRUNCATED \/ q + n > 8 * Len(data) THEN TRUNCATED ELSE q + n)
read_u(data, p, n) ==
    Eval(<<p, n>>, LAMBDA a :
        IF a[1] = TRUNCATED \/ a[1] + a[2] > 8 * Len(data) THEN 0
        ELSE read_value(data, a[1], a[2]))
read_bool(data, p) == read_u(data, p, 1) = 1
after_if(cond, data, p, n) == IF cond THEN after(data, p, n) ELSE p

SELECT_SCREEN_CONTENT_TOOLS == 2
SELECT_INTEGER_MV == 2

\* SequenceHeaderObu::read, one turn of the loop over the operating points:
\* the position after it
operating_point(data, p, initial_display_delay_present_flag) ==
    LET p1 == after(data, p, 12)                        \* operating_point_idc
        seq_level_idx == read_u(data, p1, 5)
        p2 == after(data, p1, 5)
        p3 == after_if(seq_level_idx > 7, data, p2, 1)  \* seq_tier
        for_this_op == initial_display_delay_present_flag /\ read_bool(data, p3)
        p4 == after_if(initial_display_delay_present_flag, data, p3, 1)
    IN after_if(for_this_op, data, p4, 4)               \* initial_display_delay

\* for _ in 0..operating_points_cnt: the position after k turns
RECURSIVE operating_points(_, _, _, _)
operating_points(data, p, k, initial_display_delay_present_flag) ==
    Eval(<<p, k>>, LAMBDA a :
        IF a[2] = 0 THEN a[1]
        ELSE operating_points(data,
                              operating_point(data, a[1], initial_display_delay_present_flag),
                              a[2] - 1, initial_display_delay_present_flag))

reads_twelve_bit_AnyProfile(seq_profile, high_bitdepth) == high_bitdepth

\* color_config: the twelve_bit flag is in the stream for profile 2 only
reads_twelve_bit(seq_profile, high_bitdepth) == seq_profile = 2 /\ high_bitdepth

\* color_config, up to matrix_coefficients
color_description(data, p, seq_profile) ==
    LET high_bitdepth == read_bool(data, p)
        p1 == after(data, p, 1)
        wide == reads_twelve_bit(seq_profile, high_bitdepth)
        twelve_bit == wide /\ read_bool(data, p1)
        p2 == after_if(wide, data, p1, 1)
        mono_chrome == seq_profile # 1 /\ read_bool(data, p2)
        p3 == after_if(seq_profile # 1, data, p2, 1)
        color_description_present_flag == read_bool(data, p3)
        p4 == after(data, p3, 1)
    IN [p |-> after_if(color_description_present_flag, data, p4, 24),
        bit_depth |-> IF wide THEN (IF twelve_bit THEN 12 ELSE 10)
                      ELSE IF high_bitdepth THEN 10 ELSE 8,
        mono_chrome |-> mono_chrome,
        color_primaries |->
            IF color_description_present_flag THEN read_u(data, p4, 8) ELSE 2,
        transfer_characteristics |->
            IF color_description_present_flag THEN read_u(data, after(data, p4, 8), 8) ELSE 2,
        matrix_coefficients |->
            IF color_description_present_flag THEN read_u(data, after(data, p4, 16), 8) ELSE 2]

reads_color_range_ColorOnly(mono_chrome, srgb) == ~mono_chrome /\ ~srgb

\* color_config: the color_range bit is in the stream in the mono_chrome
\* branch and in the last branch; the sRGB branch sets color_range to 1
reads_color_range(mono_chrome, srgb) == mono_chrome \/ ~srgb

\* color_config(b, seq_profile) from bit p on; .p is the position after it
color_config(data, p, seq_profile) ==
    Eval(color_description(data, p, seq_profile), LAMBDA d :
        LET srgb == /\ d.color_primaries = 1
                    /\ d.transfer_characteristics = 13
                    /\ d.matrix_coefficients = 0
            \* the branches: mono_chrome, sRGB, and the rest
            fixed == d.mono_chrome \/ srgb
            ranged == reads_color_range(d.mono_chrome, srgb)
            color_range == IF ranged THEN read_u(data, d.p, 1) ELSE 1
            p6 == after_if(ranged, data, d.p, 1)
            explicit == ~fixed /\ seq_profile \notin {0, 1} /\ d.bit_depth = 12
            subsampling_x == IF fixed THEN 0
                             ELSE IF seq_profile = 0 THEN 1
                             ELSE IF seq_profile = 1 THEN 0
                             ELSE IF d.bit_depth = 12 THEN read_u(data, p6, 1)
                             ELSE 1
            p7 == after_if(explicit, data, p6, 1)
            subsampling_y == IF fixed THEN 0
                             ELSE IF seq_profile = 0 THEN 1
                             ELSE IF seq_profile = 1 THEN 0
                             ELSE IF d.bit_depth = 12
                             THEN (IF subsampling_x # 0 THEN read_u(data, p7, 1) ELSE 0)
                             ELSE 0
            p8 == after_if(explicit /\ subsampling_x # 0, data, p7, 1)
            positioned == ~fixed /\ subsampling_x # 0 /\ subsampling_y # 0
            p9 == after_if(positioned, data, p8, 2)
        IN [p |-> after_if(~fixed, data, p9, 1),
            subsampling_x |-> subsampling_x, subsampling_y |-> subsampling_y,
            chroma_sample_position |-> IF positioned THEN read_u(data, p8, 2) ELSE 0,
            separate_uv_delta_q |-> ~fixed /\ read_bool(data, p9),
            color_range |-> color_range, bit_depth |-> d.bit_depth,
            mono_chrome |-> d.mono_chrome,
            color_primaries |-> d.color_primaries,
            transfer_characteristics |-> d.transfer_characteristics,
            matrix_coefficients |-> d.matrix_coefficients])

\* SequenceHeaderObu::read, from seq_profile to operating_points_cnt; .p1 is
\* the position after seq_profile, .p the position before the loop over the
\* operating points (or after seq_level_idx)
sequence_start(data) ==
    LET p1 == after(data, 0, 3)
        p2 == after(data, p1, 1)
        reduced == read_bool(data, p2)
        p3 == after(data, p2, 1)
        \* seq_level_idx (5 bits), or timing_info_present_flag
        p4 == after(data, p3, IF reduced THEN 5 ELSE 1)
        p5 == after_if(~reduced, data, p4, 1)
    IN [seq_profile |-> read_u(data, 0, 3),
        p1 |-> p1,
        still_picture |-> read_bool(data, p1),
        reduced_still_picture_header |-> reduced,
        timing_info_present_flag |-> ~reduced /\ read_bool(data, p3),
        initial_display_delay_present_flag |-> ~reduced /\ read_bool(data, p4),
        operating_points_cnt |-> 1 + read_u(data, p5, 5),
        p |-> after_if(~reduced, data, p5, 5)]

\* SequenceHeaderObu::read, from frame_width_bits to enable_intra_edge_filter
frame_size(data, p, reduced) ==
    LET frame_width_bits == 1 + read_u(data, p, 4)
        p8 == after(data, p, 4)
        frame_height_bits == 1 + read_u(data, p8, 4)
        p9 == after(data, p8, 4)
        p10 == after(data, p9, frame_width_bits)
        p11 == after(data, p10, frame_height_bits)
        frame_id_numbers_present_flag == ~reduced /\ read_bool(data, p11)
        p12 == after_if(~reduced, data, p11, 1)
        p13 == after_if(frame_id_numbers_present_flag, data, p12, 4)
        p14 == after_if(frame_id_numbers_present_flag, data, p13, 3)
    IN [frame_width_bits |-> frame_width_bits,
        frame_height_bits |-> frame_height_bits,
        max_frame_width |-> 1 + read_u(data, p9, frame_width_bits),
        max_frame_height |-> 1 + read_u(data, p10, frame_height_bits),
        frame_id_numbers_present_flag |-> frame_id_numbers_present_flag,
        delta_frame_id_length |->
            IF frame_id_numbers_present_flag THEN 2 + read_u(data, p12, 4) ELSE 0,
        additional_frame_id_length |->
            IF frame_id_numbers_present_flag THEN 1 + read_u(data, p13, 3) ELSE 0,
        use_128x128_superblock |-> read_bool(data, p14),
        \* enable_filter_intra, enable_intra_edge_filter
        p |-> after(data, p14, 3)]

\* SequenceHeaderObu::read, from enable_interintra_compound to
\* enable_restoration
coding_tools(data, p, reduced) ==
    LET \* if !reduced_still_picture_header: four flags, then enable_order_hint
        enable_order_hint == ~reduced /\ read_bool(data, after(data, p, 4))
        p16 == after_if(~reduced, data, p, 5)
        \* enable_jnt_comp, enable_ref_frame_mvs
        p17 == after_if(enable_order_hint, data, p16, 2)
        forces_tools == ~reduced /\ ~read_bool(data, p17)
        p18 == after_if(~reduced, data, p17, 1)
        seq_force_screen_content_tools ==
            IF forces_tools THEN read_u(data, p18, 1) ELSE SELECT_SCREEN_CONTENT_TOOLS
        p19 == after_if(forces_tools, data, p18, 1)
        chooses_mv == ~reduced /\ seq_force_screen_content_tools > 0
        forces_mv == chooses_mv /\ ~read_bool(data, p19)
        p20 == after_if(chooses_mv, data, p19, 1)
        p21 == after_if(forces_mv, data, p20, 1)
        p22 == after_if(enable_order_hint, data, p21, 3)
    IN [enable_order_hint |-> enable_order_hint,
        seq_force_screen_content_tools |-> seq_force_screen_content_tools,
        seq_force_integer_mv |->
            IF forces_mv THEN read_u(data, p20, 1) ELSE SELECT_INTEGER_MV,
        order_hint_bits |-> IF enable_order_hint THEN 1 + read_u(data, p21, 3) ELSE 0,
        \* enable_superres, enable_cdef, enable_restoration
        p |-> after(data, p22, 3)]

\* SequenceHeaderObu::read(data). Every read is b.read_*(..)?, so the first
\* one that finds too few bits ends the parse with the error converted
\* from BitReaderError; the checks that return early come before any read
\* that could have failed unnoticed.
SequenceHeaderObu_read(data) ==
    LET truncated == Err("InvalidData", "truncated bits") IN
    Eval(sequence_start(data), LAMBDA a :
    IF a.p1 = TRUNCATED THEN truncated
    ELSE IF a.seq_profile > 2 THEN Err("InvalidData", "seq_profile")
    ELSE IF a.timing_info_present_flag
    THEN Err("Unsupported", "timing_info_present_flag")
    ELSE
    Eval(IF a.reduced_still_picture_header THEN a.p
         ELSE operating_points(data, a.p, a.operating_points_cnt,
                               a.initial_display_delay_present_flag), LAMBDA p7 :
    Eval(frame_size(data, p7, a.reduced_still_picture_header), LAMBDA f :
    IF f.p # TRUNCATED /\ (f.frame_width_bits = 0 \/ f.frame_height_bits = 0
                           \/ f.max_frame_width = 0 \/ f.max_frame_height = 0)
    THEN Err("InvalidData", "overflow")
    ELSE
    Eval(coding_tools(data, f.p, a.reduced_still_picture_header), LAMBDA t :
    Eval(color_config(data, t.p, a.seq_profile), LAMBDA color :
    IF after(data, color.p, 1) = TRUNCATED THEN truncated
    ELSE Ok([color |-> [color EXCEPT !.p = 0],
             seq_profile |-> a.seq_profile,
             still_picture |-> a.still_picture,
             reduced_still_picture_header |-> a.reduced_still_picture_header,
             max_frame_width |-> f.max_frame_width,
             max_frame_height |-> f.max_frame_height,
             frame_id_numbers_present_flag |-> f.frame_id_numbers_present_flag,
             delta_frame_id_length |-> f.delta_frame_id_length,
             additional_frame_id_length |-> f.additional_frame_id_length,
             film_grain_params_present |-> read_bool(data, color.p),
             seq_force_screen_content_tools |-> t.seq_force_screen_content_tools,
             seq_force_integer_mv |-> t.seq_force_integer_mv,
             order_hint_bits |-> t.order_hint_bits,
             enable_order_hint |-> t.enable_order_hint,
             use_128x128_superblock |-> f.use_128x128_superblock]))))))

\* leb128::read::unsigned from byte `at` (0-based) on: seven bits a byte,
\* least significant group first, the top bit says another byte follows.
\* .next is the position after the field. The buffers explored are shorter
\* than the ten bytes a value wider than 64 bits needs.
RECURSIVE leb128_read_unsigned(_, _)
leb128_read_unsigned(data, at) ==
    IF at >= Len(data) THEN [ok |-> FALSE, value |-> 0, next |-> at]
    ELSE LET byte == data[at + 1] IN
         IF byte < 128 THEN [ok |-> TRUE, value |-> byte, next |-> at + 1]
         ELSE LET r == leb128_read_unsigned(data, at + 1) IN
              [ok |-> r.ok, value |-> (byte % 128) + 128 * r.value, next |-> r.next]

obu_header_NoExtension(data, pos) ==
    LET b == data[pos + 1]
        leb == leb128_read_unsigned(data, pos + 1) IN
    IF b >= 128 THEN Err("InvalidData", "not obu")
    ELSE IF (b \div 2) % 2 = 1 /\ ~leb.ok THEN Err("InvalidData", "leb")
    ELSE Ok([obu_size |-> IF (b \div 2) % 2 = 1 THEN leb.value ELSE Len(data) - (pos + 1),
             is_sequence_header |-> (b \div 8) = 1,
             next |-> IF (b \div 2) % 2 = 1 THEN leb.next ELSE pos + 1])

\* obu_header(data) with data the buffer from byte pos (0-based) on, which is
\* not empty; .next is where data starts after the call
obu_header(data, pos) ==
    LET b == data[pos + 1]
        is_sequence_header == (b \div 8) = 1
        obu_extension_flag == (b \div 4) % 2 # 0
        obu_has_size_field == (b \div 2) % 2 # 0
        first == IF obu_extension_flag THEN pos + 2 ELSE pos + 1
        leb == leb128_read_unsigned(data, first) IN
    IF b >= 128 THEN Err("InvalidData", "not obu")
    ELSE IF first > Len(data) THEN Err("UnexpectedEOF", "")
    ELSE IF obu_has_size_field /\ ~leb.ok THEN Err("InvalidData", "leb")
    ELSE Ok([obu_size |-> IF obu_has_size_field THEN leb.value ELSE Len(data) - first,
             is_sequence_header |-> is_sequence_header,
             next |-> IF obu_has_size_field THEN leb.next ELSE first])

\* AvifData::parse_obu: the fields of AV1Metadata taken from the sequence
\* header; chroma_subsampling is the pair made of subsampling_x and
\* subsampling_y of ColorConfig
AvifData_parse_obu(r) ==
    IF ~r.ok THEN r
    ELSE Ok([still_picture |-> r.val.still_picture,
             max_frame_width |-> r.val.max_frame_width,
             max_frame_height |-> r.val.max_frame_height,
             bit_depth |-> r.val.color.bit_depth,
             seq_profile |-> r.val.seq_profile,
             chroma_subsampling |-> <<r.val.color.subsampling_x # 0,
                                      r.val.color.subsampling_y # 0>>])

\* ------------------------------------------------ the AV1 buffers explored
TailBits == 7           \* bits after the fixed part of a packed sequence header

\* the bytes of a bit string, padded with zero bits to n bytes
Pack(bits, n) ==
    LET bit(i) == IF i <= Len(bits) THEN bits[i] ELSE 0
        at(i, j) == bit(8 * (i - 1) + j) IN
    [i \in 1..n |-> 128 * at(i, 1) + 64 * at(i, 2) + 32 * at(i, 3) + 16 * at(i, 4)
                    + 8 * at(i, 5) + 4 * at(i, 6) + 2 * at(i, 7) + at(i, 8)]

Bits3(v) == <<(v \div 4) % 2, (v \div 2) % 2, v % 2>>

\* a reduced still picture header up to enable_restoration: seq_profile,
\* still_picture, reduced_still_picture_header, seq_level_idx 0, one bit of
\* width and of height, all flags 0
ReducedPrefix(seq_profile) ==
    Bits3(seq_profile) \o <<1, 1>> \o <<0, 0, 0, 0, 0>> \o <<0, 0, 0, 0>> \o <<0, 0, 0, 0>>
    \o <<0, 0>> \o <<0, 0, 0>> \o <<0, 0, 0>>

\* high_bitdepth, then color_description_present_flag with BT.709, sRGB and
\* the identity matrix: for profile 1 (no mono_chrome bit), and with a clear
\* mono_chrome bit for the other profiles
SrgbTails == {<<hb>> \o m \o <<1>> \o <<0, 0, 0, 0, 0, 0, 0, 1>> \o <<0, 0, 0, 0, 1, 1, 0, 1>>
              \o <<0, 0, 0, 0, 0, 0, 0, 0>> \o <<f>> :
                 hb \in {0, 1}, m \in {<<>>, <<0>>}, f \in {0, 1}}

\* high_bitdepth and twelve_bit set, mono_chrome and
\* color_description_present_flag clear, then every value of the seven bits
\* that color_range, the subsampling flags, chroma_sample_position,
\* separate_uv_delta_q and film_grain_params_present can take
TwelveBitTails == {<<1, 1, 0, 0>> \o t : t \in [1..TailBits -> {0, 1}]}

PackedPayloads ==
    {Pack(ReducedPrefix(sp) \o tail, n) :
        sp \in 0..3, tail \in [1..TailBits -> {0, 1}] \cup SrgbTails \cup TwelveBitTails,
        n \in {5, 9}}

\* a first byte (seq_profile and the four bits after it) followed by a
\* pattern of two bytes repeated
FirstBytes == {32 * sp + low : sp \in {0, 1, 2, 3, 7}, low \in {0, 16, 18, 20, 24, 31}}
Patterns == {<<0, 0>>, <<255, 255>>, <<0, 255>>, <<85, 170>>, <<128, 8>>}
PatternPayloads ==
    {<<f>> \o [i \in 1..n |-> pat[2 - (i % 2)]] :
        f \in FirstBytes, pat \in Patterns, n \in 0..(MaxSeqLen - 1)}

SeqPayloads == PackedPayloads \cup PatternPayloads \cup {<<>>}

\* the header byte of an OBU
ObuHeaderByte(type, ext, has_size) == 8 * type + 4 * ext + 2 * has_size

\* a sequence header the walked buffers carry: profile 2, 10 bits
PlainSeq == Pack(ReducedPrefix(2) \o <<1, 0, 0, 0, 0, 0, 0>>, 5)

\* the OBUs of the walked buffers: skipped ones (with a size, with an
\* extension byte, with a sequence header byte inside the payload, with a
\* size of two LEB128 bytes, without a size field), sequence headers, and
\* the malformed ones
ObuUnits ==
    {<<ObuHeaderByte(2, 0, 1), 1, 170>>,
     <<ObuHeaderByte(2, 1, 1), 0, 0>>,
     <<ObuHeaderByte(15, 0, 1), 2, ObuHeaderByte(1, 0, 1), 0>>,
     <<ObuHeaderByte(2, 0, 1), 129, 0, 7>>,
     <<ObuHeaderByte(2, 0, 0), 9, 9>>,
     <<ObuHeaderByte(1, 0, 1), Len(PlainSeq)>> \o PlainSeq,
     <<ObuHeaderByte(1, 1, 1), 0, Len(PlainSeq)>> \o PlainSeq,
     <<ObuHeaderByte(1, 0, 0)>> \o PlainSeq,
     <<ObuHeaderByte(1, 0, 1), Len(PlainSeq) + 1>> \o PlainSeq,
     <<128 + ObuHeaderByte(2, 0, 1)>>,
     <<ObuHeaderByte(2, 0, 1), 5, 0>>,
     <<ObuHeaderByte(2, 0, 1), 128>>,
     <<ObuHeaderByte(2, 1, 0)>>}

RECURSIVE Concat(_)
Concat(units) == IF units = <<>> THEN <<>> ELSE Head(units) \o Concat(Tail(units))

WalkBuffers == {Concat(us) : us \in UNION {[1..n -> ObuUnits] : n \in 0..MaxObus}}
HeaderBuffers ==
    {<<ObuHeaderByte(1, 0, 1), Len(pl)>> \o pl : pl \in SeqPayloads}
    \cup {<<ObuHeaderByte(1, 0, 0)>> \o pl : pl \in PatternPayloads}
ObuBuffers == WalkBuffers \cup HeaderBuffers

\* ------------------------------------------ parse_obu, one step at a time
\* AvifData::primary_item_metadata / alpha_item_metadata on a buffer
ObuInit ==
    /\ \E d \in ObuBuffers : obu = [NoObu EXCEPT !.data = d, !.pc = "walk"]
    /\ rd = NoReader
    /\ tw = NoTwin
    /\ il = NoIloc
    /\ scope = "ftyp"
    /\ debug_assertions = FALSE
    /\ pc = "ftyp"
    /\ offset = 0
    /\ eof = FALSE
    /\ nboxes = 0
    /\ nchild = 0
    /\ cur = NoBox
    /\ meta = None
    /\ mdats = <<>>
    /\ captured = <<>>
    /\ local = NoLocal
    /\ alpha_item_id = None
    /\ context = DefaultAvifData
    /\ loc_i = 0
    /\ ext_j = 0
    /\ result = Running

ObuFrame == UNCHANGED <<parse_vars, rd, tw, il>>

\* while !data.is_empty() is false: Err(Error::UnexpectedEOF)
ObuEnd ==
    /\ obu.pc = "walk"
    /\ obu.pos = Len(obu.data)
    /\ obu' = [obu EXCEPT !.pc = "done", !.out = Err("UnexpectedEOF", "")]
    /\ ObuFrame

\* obu_header(&mut data)? or data.get(..h.obu_size).ok_or(UnexpectedEOF)? fails
ObuFail ==
    /\ obu.pc = "walk"
    /\ obu.pos < Len(obu.data)
    /\ LET h == obu_header(obu.data, obu.pos) IN
        /\ IF h.ok THEN h.val.obu_size > Len(obu.data) - h.val.next ELSE TRUE
        /\ obu' = [obu EXCEPT !.pc = "done",
                              !.out = IF ~h.ok THEN h ELSE Err("UnexpectedEOF", "")]
    /\ ObuFrame

\* an OBU that is not a sequence header: data = &data[h.obu_size..]
ObuSkip ==
    /\ obu.pc = "walk"
    /\ obu.pos < Len(obu.data)
    /\ LET h == obu_header(obu.data, obu.pos) IN
        /\ h.ok /\ h.val.obu_size <= Len(obu.data) - h.val.next
        /\ ~h.val.is_sequence_header
        /\ obu' = [obu EXCEPT !.pos = h.val.next + h.val.obu_size,
                              !.skipped = Append(@, obu.pos)]
    /\ ObuFrame

\* return SequenceHeaderObu::read(remaining_data): .seq is what parse_obu
\* returns, .out the AV1Metadata that AvifData::parse_obu makes of it
ObuSequenceHeader ==
    /\ obu.pc = "walk"
    /\ obu.pos < Len(obu.data)
    /\ LET h == obu_header(obu.data, obu.pos)
           remaining_data == SubSeq(obu.data, h.val.next + 1, h.val.next + h.val.obu_size) IN
        /\ h.ok /\ h.val.obu_size <= Len(obu.data) - h.val.next
        /\ h.val.is_sequence_header
        /\ obu' = Eval(SequenceHeaderObu_read(remaining_data), LAMBDA seq :
                    [obu EXCEPT !.pc = "done", !.pos = h.val.next + h.val.obu_size,
                                !.payload = remaining_data,
                                !.seq = seq, !.out = AvifData_parse_obu(seq)])
    /\ ObuFrame

ObuNext == ObuEnd \/ ObuFail \/ ObuSkip \/ ObuSequenceHeader

ObuSpec == ObuInit /\ [][ObuNext]_vars

\* parse_obu is one call that runs to its return; the buffers are the
\* walked ones
ObuWalkInit == ObuInit /\ obu.data \in WalkBuffers
ObuLiveSpec == ObuWalkInit /\ [][ObuNext]_vars /\ WF_vars(ObuNext)

\* ------------------------------- read_avif called twice on the same bytes
\* Everything read_avif holds while it runs: its reader, its locals and the
\* value it returns. All of it is created inside the call.
Snapshot ==
    [pc |-> pc, offset |-> offset, eof |-> eof, nboxes |-> nboxes, nchild |-> nchild,
     cur |-> cur, meta |-> meta, mdats |-> mdats, captured |-> captured, local |-> local,
     alpha_item_id |-> alpha_item_id, context |-> context, loc_i |-> loc_i,
     ext_j |-> ext_j, result |-> result]

Restore(s) ==
    /\ pc' = s.pc
    /\ offset' = s.offset
    /\ eof' = s.eof
    /\ nboxes' = s.nboxes
    /\ nchild' = s.nchild
    /\ cur' = s.cur
    /\ meta' = s.meta
    /\ mdats' = s.mdats
    /\ captured' = s.captured
    /\ local' = s.local
    /\ alpha_item_id' = s.alpha_item_id
    /\ context' = s.context
    /\ loc_i' = s.loc_i
    /\ ext_j' = s.ext_j
    /\ result' = s.result

\* The families of inputs the two calls are compared on. The family of the
\* extents is left out: each of its iloc boxes (over ten thousand) would be
\* replayed against every other one; items are loaded from their extents in
\* every family.
TwiceScopes == Scopes \ {"extents"}

\* Two calls start on the same file, in the same build.
TwiceInit ==
    /\ rd = NoReader
    /\ obu = NoObu
    /\ scope \in TwiceScopes
    /\ debug_assertions \in BOOLEAN
    /\ pc = "ftyp"
    /\ offset = 0
    /\ eof = FALSE
    /\ nboxes = 0
    /\ nchild = 0
    /\ cur = NoBox
    /\ meta = None
    /\ mdats = <<>>
    /\ captured = <<>>
    /\ local = NoLocal
    /\ alpha_item_id = None
    /\ context = DefaultAvifData
    /\ loc_i = 0
    /\ ext_j = 0
    /\ result = Running
    /\ tw = [turn |-> "first", pre |-> Snapshot, post |-> Snapshot]
    /\ il = NoIloc

\* the first call takes one step of read_avif
FirstCallStep ==
    /\ tw.turn = "first"
    /\ Snapshot = tw.pre
    /\ Next

\* the second call is brought to where the first one was before its step
Replay ==
    /\ tw.turn = "first"
    /\ Snapshot # tw.pre
    /\ Restore(tw.pre)
    /\ tw' = [turn |-> "second", pre |-> tw.pre, post |-> Snapshot]
    /\ UNCHANGED <<scope, debug_assertions, rd, obu, il>>

\* the second call takes the same step; the file gives it the bytes it gave
\* the first call (cur, and whether the stream ended there)
SecondCallStep ==
    /\ tw.turn = "second"
    /\ Snapshot = tw.pre
    /\ cur' = tw.post.cur
    /\ eof' = tw.post.eof
    /\ Next

\* both calls go on from where they are
Join ==
    /\ tw.turn = "second"
    /\ Snapshot # tw.pre
    /\ tw' = [turn |-> "first", pre |-> Snapshot, post |-> Snapshot]
    /\ UNCHANGED <<parse_vars, rd, obu, il>>

TwiceNext == FirstCallStep \/ Replay \/ SecondCallStep \/ Join

TwiceSpec == TwiceInit /\ [][TwiceNext]_vars

\* ====================================================== read_iloc, bit by bit
MaxIlocItems == 2       \* items an encoded iloc payload holds
FloodExtents == 150     \* extents declared by an item whose extents take no bits

\* IlocFieldSize::to_bits: the width in bits of a field of v bytes
to_bits(v) == 8 * v

\* index_size of a version 0 box: None
NoIndex == -1

\* From<bitreader::BitReaderError> for Error
truncated_bits == Err("InvalidData", "truncated bits")

\* the two bytes of a 16-bit value, and a value below 2^16 in a field of n bytes
BE2(v) == <<v \div 256, v % 256>>
Field(v, n) == IF n = 0 THEN <<>> ELSE [i \in 1..(n - 2) |-> 0] \o BE2(v)

\* An item as a file writer lays it out: the item with its extents, and the
\* extent count written in front of them (`count`)
IlocItemBytes(version, os, ls, bs, is, it, count) ==
    Field(it.item_id, IF version = 2 THEN 4 ELSE 2)
    \o (IF version \in {1, 2} THEN BE2(it.construction_method) ELSE <<>>)
    \o BE2(it.data_reference_index)
    \o Field(it.base_offset, bs)
    \o BE2(count)
    \o Concat([k \in 1..Len(it.extents) |->
                 (IF version \in {1, 2} THEN Field(k, is) ELSE <<>>)
                 \o Field(it.extents[k].extent_offset, os)
                 \o Field(it.extents[k].extent_length, ls)])

\* the payload after version and flags: the four sizes, the item count
\* written in the box and the items
IlocBytes(version, os, ls, bs, is, item_count, its) ==
    <<16 * os + ls, 16 * bs + is>>
    \o Field(item_count, IF version = 2 THEN 4 ELSE 2)
    \o Concat([k \in 1..Len(its) |->
                 IlocItemBytes(version, os, ls, bs, is, its[k][1], its[k][2])])

\* items with their written extent count: as many extents as written, one
\* more, one fewer
OneExtent == IlocItem(1, 0, 0, 7, <<Extent(3, 5)>>)
TwoExtents == IlocItem(2, 1, 0, 0, <<Extent(3, 5), Extent(9, 0)>>)
IlocLayouts ==
    {<<>>, <<<<OneExtent, 1>>>>, <<<<TwoExtents, 2>>>>, <<<<OneExtent, 2>>>>,
     <<<<TwoExtents, 1>>>>, <<<<IlocItem(1, 0, 0, 0, <<>>), 0>>>>,
     <<<<OneExtent, 1>>, <<TwoExtents, 2>>>>}
IlocFields ==
    {<<<<IlocItem(1, cm, dri, 0, <<Extent(3, 5)>>), 1>>>> : cm \in {0, 1, 2, 3, 15}, dri \in {0, 1}}
    \cup {<<<<IlocItem(1, 0, 0, base, <<Extent(o, l)>>), 1>>>> :
            base \in {0, 7, U64Max}, o \in {0, 3, U64Max}, l \in {0, 5, U64Max}}
IlocFlood == {<<<<IlocItem(1, 0, 0, 0, <<>>), FloodExtents>>>>}

\* the payload as it is, with a byte more, with its last byte missing
Tails(d) == {d, d \o <<0>>} \cup (IF d = <<>> THEN {} ELSE {SubSeq(d, 1, Len(d) - 1)})

IlocInputs ==
    \* every version, every combination of field widths, item counts that
    \* agree and disagree with the items written
    UNION {UNION {Tails(IlocBytes(v, os, ls, bs, is, n, its)) \X {v} \X {0} :
                    n \in {c \in (Len(its) - 1)..(Len(its) + 1) : 0 <= c /\ c <= MaxIlocItems}} :
             v \in 0..3, os \in {0, 4, 8}, ls \in {0, 4, 8}, bs \in {0, 4}, is \in {0, 4},
             its \in IlocLayouts}
    \* field values
    \cup {<<IlocBytes(v, 4, 4, 4, 0, 1, its), v, 0>> : v \in {0, 1, 2}, its \in IlocFields}
    \* widths outside {0, 4, 8}, flags that are not zero
    \cup {<<IlocBytes(v, sz[1], sz[2], sz[3], sz[4], 1, <<<<OneExtent, 1>>>>), v, 0>> :
            v \in {0, 1},
            sz \in {<<2, 4, 4, 0>>, <<4, 2, 4, 0>>, <<4, 4, 2, 0>>, <<4, 4, 4, 2>>}}
    \cup {<<IlocBytes(0, 4, 4, 4, 0, 1, <<<<OneExtent, 1>>>>), 0, 1>>, <<<<>>, 0, 0>>,
          <<<<68>>, 1, 0>>}
    \* many extents of no bits
    \cup {<<IlocBytes(v, 0, 0, bs, is, 1, its), v, 0>> :
            v \in {0, 1, 2}, bs \in {0, 4}, is \in {0, 4}, its \in IlocFlood}

IlocInit ==
    /\ \E in \in IlocInputs :
         il = [pc |-> "start", data |-> in[1], version |-> in[2], flags |-> in[3],
               pos |-> 0, offset_size |-> 0, length_size |-> 0, base_offset_size |-> 0,
               index_size |-> NoIndex, item_count |-> 0, items |-> <<>>,
               item |-> <<>>, extent_count |-> 0, extents |-> <<>>,
               iterations |-> 0, out |-> Running]
    /\ rd = NoReader
    /\ obu = NoObu
    /\ tw = NoTwin
    /\ scope = "ftyp"
    /\ debug_assertions = FALSE
    /\ pc = "ftyp"
    /\ offset = 0
    /\ eof = FALSE
    /\ nboxes = 0
    /\ nchild = 0
    /\ cur = NoBox
    /\ meta = None
    /\ mdats = <<>>
    /\ captured = <<>>
    /\ local = NoLocal
    /\ alpha_item_id = None
    /\ context = DefaultAvifData
    /\ loc_i = 0
    /\ ext_j = 0
    /\ result = Running

IlocFrame == UNCHANGED <<parse_vars, rd, obu, tw>>

\* read_iloc returns an error
IlocFails(r, body) == [il EXCEPT !.pc = "done", !.out = r, !.iterations = @ + body]

\* read_iloc up to the loop over the items: version, the four sizes, the
\* item count
IlocStart ==
    /\ il.pc = "start"
    /\ LET d == il.data
           v == read_fullbox_version_no_flags(il)
           p1 == after(d, 0, 4)
           p2 == after(d, p1, 4)
           p3 == after(d, p2, 4)
           p4 == after(d, p3, 4)
           is == read_u(d, p3, 4)
           count_bits == IF il.version = 2 THEN 32 ELSE 16
           p5 == after(d, p4, count_bits)
           r == IF ~v.ok THEN v
                ELSE IF v.val > 2 THEN Err("Unsupported", "unsupported version in 'iloc' box")
                ELSE IF p1 = TRUNCATED THEN truncated_bits
                ELSE IF ~IlocFieldSizeOk(read_u(d, 0, 4))
                THEN Err("InvalidData", "value must be in the set {0, 4, 8}")
                ELSE IF p2 = TRUNCATED THEN truncated_bits
                ELSE IF ~IlocFieldSizeOk(read_u(d, p1, 4))
                THEN Err("InvalidData", "value must be in the set {0, 4, 8}")
                ELSE IF p3 = TRUNCATED THEN truncated_bits
                ELSE IF ~IlocFieldSizeOk(read_u(d, p2, 4))
                THEN Err("InvalidData", "value must be in the set {0, 4, 8}")
                ELSE IF p4 = TRUNCATED THEN truncated_bits
                ELSE IF v.val \in {1, 2} /\ ~IlocFieldSizeOk(is)
                THEN Err("InvalidData", "value must be in the set {0, 4, 8}")
                ELSE IF p5 = TRUNCATED THEN truncated_bits
                ELSE Ok(<<>>) IN
        il' = IF ~r.ok THEN IlocFails(r, 0)
              ELSE [il EXCEPT !.pc = "items", !.pos = p5,
                              !.offset_size = read_u(d, 0, 4),
                              !.length_size = read_u(d, p1, 4),
                              !.base_offset_size = read_u(d, p2, 4),
                              !.index_size = IF v.val = 0 THEN NoIndex ELSE is,
                              !.item_count = read_u(d, p4, count_bits)]
    /\ IlocFrame

read_construction_method_TwoIsIdat(explicit, field) ==
    IF ~explicit \/ field = 0 THEN Ok("File")
    ELSE IF field \in {1, 2} THEN Ok("Idat")
    ELSE Err("InvalidData", "construction_method is taken from the set 0, 1 or 2")

\* read_iloc, `let construction_method = match version`: version 0 has no
\* field; in versions 1 and 2 `field` is the 4 bits after 12 reserved ones
read_construction_method(explicit, field) ==
    IF ~explicit \/ field = 0 THEN Ok("File")
    ELSE IF field = 1 THEN Ok("Idat")
    ELSE IF field = 2
    THEN Err("Unsupported", "construction_method 'item_offset' is not supported")
    ELSE Err("InvalidData", "construction_method is taken from the set 0, 1 or 2")

\* one pass of `for _ in 0..item_count` up to the loop over the extents
IlocItemHead ==
    /\ il.pc = "items"
    /\ Len(il.items) < il.item_count
    /\ LET d == il.data
           explicit == il.version \in {1, 2}
           id_bits == IF il.version = 2 THEN 32 ELSE 16
           p1 == after(d, il.pos, id_bits)
           p2 == after_if(explicit, d, p1, 12)
           p3 == after_if(explicit, d, p2, 4)
           construction_method == read_construction_method(explicit, read_u(d, p2, 4))
           p4 == after(d, p3, 16)
           p5 == after(d, p4, to_bits(il.base_offset_size))
           p6 == after(d, p5, 16)
           r == IF p3 = TRUNCATED THEN truncated_bits
                ELSE IF ~construction_method.ok THEN construction_method
                ELSE IF p4 = TRUNCATED THEN truncated_bits
                ELSE IF read_u(d, p3, 16) # 0
                THEN Err("Unsupported", "external file references are not supported")
                ELSE IF p6 = TRUNCATED THEN truncated_bits
                ELSE IF read_u(d, p5, 16) < 1
                THEN Err("InvalidData", "extent_count must have a value 1 or greater")
                ELSE Ok(<<>>) IN
        il' = IF ~r.ok THEN IlocFails(r, 1)
              ELSE [il EXCEPT !.pc = "extents", !.pos = p6,
                              !.item = [item_id |-> read_u(d, il.pos, id_bits),
                                        construction_method |-> construction_method.val,
                                        base_offset |->
                                            read_u(d, p4, to_bits(il.base_offset_size))],
                              !.extent_count = read_u(d, p5, 16),
                              !.extents = <<>>,
                              !.iterations = @ + 1]
    /\ IlocFrame

\* one pass of `for _ in 0..extent_count`; after the last one the item is
\* pushed
IlocExtent ==
    /\ il.pc = "extents"
    /\ LET d == il.data
           indexed == il.index_size \notin {NoIndex, 0}
           p1 == after_if(indexed, d, il.pos, to_bits(il.index_size))
           p2 == after(d, p1, to_bits(il.offset_size))
           p3 == after(d, p2, to_bits(il.length_size))
           extent_offset == read_u(d, p1, to_bits(il.offset_size))
           extent_length == read_u(d, p2, to_bits(il.length_size))
           start == checked_add(il.item.base_offset, extent_offset)
           end == checked_add(Unwrap(start), extent_length)
           r == IF p3 = TRUNCATED THEN truncated_bits
                ELSE IF start = None THEN Err("InvalidData", "offset calculation overflow")
                ELSE IF extent_length = 0 THEN Ok(ToEnd(Unwrap(start)))
                ELSE IF end = None THEN Err("InvalidData", "end calculation overflow")
                ELSE Ok(WithLength(Unwrap(start), Unwrap(end)))
           extents == Append(il.extents, r.val)
           last == Len(extents) = il.extent_count IN
        il' = IF ~r.ok THEN IlocFails(r, 1)
              ELSE [il EXCEPT !.pos = p3,
                              !.extents = extents,
                              !.iterations = @ + 1,
                              !.pc = IF last THEN "items" ELSE "extents",
                              !.items = IF last
                                        THEN Append(@, [item_id |-> il.item.item_id,
                                                        construction_method |->
                                                            il.item.construction_method,
                                                        extents |-> extents])
                                        ELSE @]
    /\ IlocFrame

IlocEnd_IgnoresRest ==
    /\ il.pc = "items"
    /\ Len(il.items) = il.item_count
    /\ il' = [il EXCEPT !.pc = "done", !.out = Ok(il.items)]
    /\ IlocFrame

\* after the loop: `if iloc.remaining() == 0`
IlocEnd ==
    /\ il.pc = "items"
    /\ Len(il.items) = il.item_count
    /\ il' = [il EXCEPT !.pc = "done",
                        !.out = IF 8 * Len(il.data) - il.pos = 0 THEN Ok(il.items)
                                ELSE Err("InvalidData", "invalid iloc size")]
    /\ IlocFrame

IlocNext == IlocStart \/ IlocItemHead \/ IlocExtent \/ IlocEnd

IlocSpec == IlocInit /\ [][IlocNext]_vars

\* ================================================================ properties
Failed(kind) == pc = "done" /\ ~result.ok /\ result.kind = kind
Succeeded == pc = "done" /\ result.ok

\* ----------------------------------------------------------------------- C1
\* The first box has been read and nothing after it: `cur` is the first box.
FirstBoxRead == nboxes = 1 /\ ~eof /\ pc \in {"top", "done"}

\* a complete header with a size a box can have
HeaderSound(h) ==
    /\ h.hbytes >= MIN_SIZE
    /\ IF h.size32 = 1
       THEN h.hbytes >= MIN_LARGE_SIZE /\ h.size64 >= MIN_LARGE_SIZE
       ELSE h.size32 >= MIN_SIZE

PayloadLen(h) == IF h.size32 = 1 THEN h.size64 - MIN_LARGE_SIZE ELSE h.size32 - MIN_SIZE

\* a complete ftyp payload: major brand, minor version, whole brands
FtypSound(b) ==
    /\ b.have >= PayloadLen(b.head)
    /\ PayloadLen(b.head) >= 8
    /\ (PayloadLen(b.head) - 8) % 4 = 0

\* C1: when the first box is read and is not ftyp, or is an ftyp whose major
\* brand is neither avif nor avis, read_avif fails with InvalidData; when
\* the major brand is avis it fails with Unsupported.
C1_FirstBoxChecked ==
    FirstBoxRead /\ HeaderSound(cur.head) =>
        /\ cur.head.name # "ftyp" => Failed("InvalidData")
        /\ cur.head.name = "ftyp" /\ FtypSound(cur) =>
            /\ cur.body.major_brand \notin {"avif", "avis"} => Failed("InvalidData")
            /\ cur.body.major_brand = "avis" => Failed("Unsupported")

C1_Witness ==
    /\ FirstBoxRead /\ HeaderSound(cur.head) /\ cur.head.name = "ftyp" /\ FtypSound(cur)
    /\ cur.body.major_brand = "avis"
    /\ Failed("Unsupported")

\* ----------------------------------------------------------------------- C2
\* a step that reads a top-level box, a child of meta, with a sound header
ReadsTop(name) ==
    pc = "top" /\ nboxes' = nboxes + 1 /\ cur'.head.name = name /\ HeaderSound(cur'.head)
ReadsChild(name) ==
    pc = "meta" /\ nchild' = nchild + 1 /\ cur'.head.name = name /\ HeaderSound(cur'.head)
FailsWith(kind) == pc' = "done" /\ ~result'.ok /\ result'.kind = kind

\* C2: reading a second meta box, or a second pitm, iinf or iloc box inside
\* the meta box, makes read_avif fail with InvalidData.
C2_SecondBoxRejected ==
    [][/\ ReadsTop("meta") /\ meta # None => FailsWith("InvalidData")
       /\ ReadsChild("pitm") /\ local.primary_item_id # None => FailsWith("InvalidData")
       /\ ReadsChild("iinf") /\ local.item_infos # None => FailsWith("InvalidData")
       /\ ReadsChild("iloc") /\ local.iloc_items # None => FailsWith("InvalidData")]_vars

C2_Witness ==
    /\ Failed("InvalidData")
    /\ cur.head.name = "iloc" /\ HeaderSound(cur.head)
    /\ local.iloc_items # None

\* ----------------------------------------------------------------------- C3
\* C3: every successful result has a non-empty primary_item buffer.
C3_PrimaryNeverEmpty == Succeeded => context.primary_item # <<>>

\* ----------------------------------------------------------------------- C4
\* the media-data box of the file that holds position p, if any
Holder(p) ==
    {k \in 1..Len(captured) :
        captured[k].offset <= p /\ p < captured[k].offset + Len(captured[k].data)}

\* the file bytes an extent designates
Designated(extent) ==
    IF extent.kind = "WithLength"
    THEN FileBytes(extent.start, extent.end - extent.start)
    ELSE IF Holder(extent.start) = {} THEN <<>>
    ELSE LET box == captured[CHOOSE k \in Holder(extent.start) : TRUE] IN
         FileBytes(extent.start, box.offset + Len(box.data) - extent.start)

RECURSIVE ExtentsBytes(_)
ExtentsBytes(extents) ==
    IF extents = <<>> THEN <<>>
    ELSE Designated(Head(extents)) \o ExtentsBytes(Tail(extents))

\* the bytes of an item: its extents in the order the iloc box declares them
RECURSIVE ItemBytes(_, _)
ItemBytes(items, id) ==
    IF items = <<>> THEN <<>>
    ELSE (IF Head(items).item_id = id THEN ExtentsBytes(Head(items).extents) ELSE <<>>)
            \o ItemBytes(Tail(items), id)

\* C4: on success the primary_item buffer, and the alpha_item buffer when
\* present, is the concatenation in declaration order of the file bytes the
\* extents of the item designate.
C4_BuffersAreExtentBytes ==
    Succeeded =>
        /\ context.primary_item = ItemBytes(IlocItems, PrimaryId)
        /\ context.alpha_item # None =>
              Unwrap(context.alpha_item) = ItemBytes(IlocItems, Unwrap(alpha_item_id))

\* ----------------------------------------------------------------------- C5
\* an iloc box whose fields read_iloc accepts up to the offsets of its extents
IlocFieldsSound(t) ==
    /\ t.version \in 0..2 /\ t.flags = 0
    /\ {t.offset_size, t.length_size, t.base_offset_size} \subseteq {0, 4, 8}
    /\ \A k \in 1..Len(t.items) :
        /\ t.version = 0 \/ t.items[k].construction_method \in {0, 1}
        /\ t.items[k].data_reference_index = 0
        /\ t.items[k].extents # <<>>

\* the start or the end of some extent does not fit in a u64
IlocOverflows(t) ==
    \E k \in 1..Len(t.items) : \E j \in 1..Len(t.items[k].extents) :
        LET base == read_field(t.base_offset_size, t.items[k].base_offset)
            o == read_field(t.offset_size, t.items[k].extents[j].extent_offset)
            l == read_field(t.length_size, t.items[k].extents[j].extent_length) IN
        base + o > U64Max \/ (l # 0 /\ base + o + l > U64Max)

\* one media-data box of the file holds every byte of the extent
Covered(extent) ==
    \E k \in 1..Len(captured) :
        /\ captured[k].offset <= extent.start
        /\ extent.start < captured[k].offset + Len(captured[k].data)
        /\ extent.kind = "WithLength" =>
              extent.end <= captured[k].offset + Len(captured[k].data)

\* every byte of the buffer is a byte of a media-data box of the file
FromMdats(buf) ==
    \A i \in 1..Len(buf) : \E k \in 1..Len(captured) :
        \E p \in captured[k].offset..(captured[k].offset + Len(captured[k].data) - 1) :
            buf[i] = ByteAt(p)

\* C5: an iloc box in which the start or the end of an extent overflows, and
\* an extent of the primary or the alpha item that no single media-data box
\* covers, make read_avif fail with InvalidData; the buffers hold nothing
\* but bytes of the media-data boxes.
C5_ExtentsChecked ==
    [][/\ ReadsChild("iloc") /\ IlocFieldsSound(cur'.body) /\ IlocOverflows(cur'.body)
            => FailsWith("InvalidData")
       /\ pc = "load" /\ ext_j > 0 /\ ~Covered(IlocItems[loc_i].extents[ext_j])
            => FailsWith("InvalidData")
       /\ FromMdats(context'.primary_item)
       /\ context'.alpha_item # None => FromMdats(Unwrap(context'.alpha_item))]_vars

\* an extent that starts in a media-data box and ends after it is rejected
C5_Witness ==
    /\ Failed("InvalidData") /\ ext_j > 0
    /\ LET extent == IlocItems[loc_i].extents[ext_j] IN
        /\ extent.kind = "WithLength"
        /\ Holder(extent.start) # {}
        /\ ~Covered(extent)

\* ----------------------------------------------------------------------- C6
\* the bytes before the first NUL, all of them when there is none
UpToNul(data) ==
    LET nuls == {i \in 1..Len(data) : data[i] = NUL} IN
    IF nuls = {} THEN data
    ELSE SubSeq(data, 1, (CHOOSE i \in nuls : \A j \in nuls : i <= j) - 1)

\* reference k is an auxl reference to the primary item from another item
\* that has the alpha auxiliary type among its properties
Qualifies(m, k) ==
    LET r == m.item_references[k] IN
    /\ r.item_type = "auxl"
    /\ r.to_item_id = m.primary_item_id
    /\ r.from_item_id # m.primary_item_id
    /\ \E i \in 1..Len(m.properties) :
        /\ m.properties[i].item_id = r.from_item_id
        /\ m.properties[i].property.kind = "AuxiliaryType"
        /\ UpToNul(m.properties[i].property.data) = AlphaUrn

AlphaChosen == loc_i > 0

\* C6: the alpha item id is the from-id of the first qualifying reference
\* of the list, and there is none when no reference qualifies.
C6_AlphaIsFirstQualifying ==
    AlphaChosen =>
        LET m == Unwrap(meta)
            q == {k \in 1..Len(m.item_references) : Qualifies(m, k)} IN
        IF q = {} THEN alpha_item_id = None
        ELSE alpha_item_id =
                Some(m.item_references[CHOOSE k \in q : \A j \in q : k <= j].from_item_id)

\* the first auxl reference to the primary item does not qualify, the second
\* one does, by a type string that ends at a NUL
C6_Witness ==
    /\ AlphaChosen
    /\ LET m == Unwrap(meta) IN
        /\ Len(m.item_references) = 2
        /\ m.item_references[1].item_type = "auxl"
        /\ m.item_references[1].to_item_id = m.primary_item_id
        /\ ~Qualifies(m, 1) /\ Qualifies(m, 2)
        /\ alpha_item_id = Some(m.item_references[2].from_item_id)
        /\ \E i \in 1..Len(m.properties) :
            /\ m.properties[i].item_id = m.item_references[2].from_item_id
            /\ m.properties[i].property.kind = "AuxiliaryType"
            /\ m.properties[i].property.data # AlphaUrn
            /\ UpToNul(m.properties[i].property.data) = AlphaUrn

\* ----------------------------------------------------------------------- C7
PremReference(m, to) ==
    \E k \in 1..Len(m.item_references) :
        /\ m.item_references[k].item_type = "prem"
        /\ m.item_references[k].from_item_id = m.primary_item_id
        /\ m.item_references[k].to_item_id = to

\* C7: on success premultiplied_alpha is true exactly when an alpha item was
\* found and a prem reference leads from the primary item to it.
C7_PremultipliedIff ==
    Succeeded =>
        (context.premultiplied_alpha <=>
            alpha_item_id # None /\ PremReference(Unwrap(meta), Unwrap(alpha_item_id)))

C7_Witness ==
    /\ Succeeded /\ context.premultiplied_alpha
    /\ alpha_item_id # None /\ PremReference(Unwrap(meta), Unwrap(alpha_item_id))

\* ----------------------------------------------------------------------- C8
\* C8: on success, when the result has no alpha_item, premultiplied_alpha is
\* false.
C8_NoAlphaNotPremultiplied ==
    Succeeded /\ context.alpha_item = None => ~context.premultiplied_alpha

\* ----------------------------------------------------------------------- C9
\* the step in which read_avif_meta leaves its loop and returns
MetaReturns == pc = "meta" /\ nchild' = 0

\* the iinf entries for the primary item, in the order of the box
PrimaryEntries ==
    IF local.primary_item_id = None \/ local.item_infos = None THEN <<>>
    ELSE SelectSeq(Unwrap(local.item_infos),
                   LAMBDA e : e.item_id = Unwrap(local.primary_item_id))

\* C9: after the children, read_avif_meta fails with InvalidData when there
\* was no pitm box, no iinf box or no iinf entry for the primary item, with
\* Unsupported when the type of the primary item is grid, with InvalidData
\* when it is another type than av01, and succeeds only when it is av01.
C9_MetaChecks ==
    [][MetaReturns =>
        /\ local.primary_item_id = None => FailsWith("InvalidData")
        /\ local.item_infos = None => FailsWith("InvalidData")
        /\ PrimaryEntries = <<>> => FailsWith("InvalidData")
        /\ PrimaryEntries # <<>> =>
            /\ PrimaryEntries[1].item_type = "grid" => FailsWith("Unsupported")
            /\ PrimaryEntries[1].item_type \notin {"grid", "av01"} => FailsWith("InvalidData")
        /\ meta' # meta => PrimaryEntries # <<>> /\ PrimaryEntries[1].item_type = "av01"]_vars

C9_Witness ==
    Failed("Unsupported") /\ result.why = "Grid-based AVIF collage is not supported"

\* ---------------------------------------------------------------------- C10
\* the iloc entry at which the assembly of the buffers stands
AtEntry == pc \in {"load", "done"} /\ loc_i > 0 /\ loc_i <= Len(IlocItems)
Selected(loc) == loc.item_id = PrimaryId \/ Some(loc.item_id) = alpha_item_id

\* read_avif returned at the head of the entry, before any of its extents
RejectedEntry == AtEntry /\ pc = "done" /\ ~result.ok /\ ext_j = 0

\* C10 as stated: an iloc entry of the primary or the alpha item that is not
\* stored in the file makes read_avif fail with InvalidData.
C10_NotFileIsInvalidData ==
    /\ AtEntry /\ ext_j > 0 => IlocItems[loc_i].construction_method = "File"
    /\ RejectedEntry =>
        /\ Selected(IlocItems[loc_i]) /\ IlocItems[loc_i].construction_method # "File"
        /\ result.kind = "InvalidData"

\* C10, amended: an iloc entry of the primary or the alpha item that is not
\* stored in the file makes read_avif fail with Unsupported; no extent of
\* such an entry is read.
C10_NotFileIsUnsupported ==
    /\ AtEntry /\ ext_j > 0 => IlocItems[loc_i].construction_method = "File"
    /\ RejectedEntry =>
        /\ Selected(IlocItems[loc_i]) /\ IlocItems[loc_i].construction_method # "File"
        /\ result.kind = "Unsupported"
    /\ Succeeded =>
        \A k \in 1..Len(IlocItems) :
            Selected(IlocItems[k]) => IlocItems[k].construction_method = "File"

\* the entry of the alpha item is stored in the item-data box
C10_Witness ==
    /\ RejectedEntry /\ Failed("Unsupported")
    /\ Some(IlocItems[loc_i].item_id) = alpha_item_id
    /\ IlocItems[loc_i].construction_method = "Idat"

\* ---------------------------------------------------------------------- C11
\* C11: no input makes the parser panic: every assertion and debug assertion
\* reachable in read_avif holds, so that a malformed file always yields an
\* error value, in builds with debug assertions too.
C11_NoPanic == result.kind # "Panic"

\* The assertions that are not debug assertions hold: a panic is a failed
\* debug assertion.
AssertsHold ==
    result.kind = "Panic" =>
        /\ debug_assertions
        /\ result.why \in {"bad parser state bytes left",
                           "assertion failed: num_channels == channels.len()"}

\* ---------------------------------------------------------------------- C12
\* some but not all bytes of a header were there when it was read
PartialHeader(h) ==
    /\ h.hbytes > 0
    /\ h.hbytes < MIN_SIZE \/ (h.size32 = 1 /\ h.hbytes < MIN_LARGE_SIZE)

\* C12: next_box reports the end of the input only when no byte of a header
\* is there; a header of which some but not all bytes are there (1 to 7
\* bytes, or a missing 64-bit size) is reported as UnexpectedEOF.
C12_ShortHeaderIsTruncation ==
    PartialHeader(cur.head) => next_box(cur.head) = Err("UnexpectedEOF", "")

\* ---------------------------------------------------------------------- C13
\* A box inside the child t of meta is left by its parser with bytes of its
\* declared payload unread.
UnreadIn(name, t) ==
    CASE name = "pitm" -> t.unread > 0
      [] name = "iref" -> \E k \in 1..Len(t.boxes) : t.boxes[k].unread > 0
      [] name = "iprp" ->
            \E k \in 1..Len(t.boxes) :
                \/ t.boxes[k].name = "ipma" /\ t.boxes[k].unread > 0
                \/ /\ t.boxes[k].name = "ipco"
                   /\ \E j \in 1..Len(t.boxes[k].props) :
                        /\ t.boxes[k].props[j].name = "pixi"
                        /\ \/ t.boxes[k].props[j].unread > 0
                           \/ Len(t.boxes[k].props[j].data) > PIXI_CAPACITY
      [] OTHER -> FALSE

\* the box read by this step declares more payload than there is
EndsEarly == content_limit(read_box_header(cur'.head).val) > cur'.have

Rejects == pc' = "done" /\ ~result'.ok

\* C13: a recognised box (meta and mdat at the top level, the children of
\* meta, infe entries, iref sub-boxes, ipco, ipma and the property boxes)
\* that its parser leaves with unread payload bytes, or whose content ends
\* before its declared length, makes read_avif fail: the mismatch is never
\* accepted silently.
C13_UnreadIsRejected ==
    [][/\ \A name \in {"pitm", "iinf", "iref", "iprp", "iloc"} :
            ReadsChild(name) /\ (UnreadIn(name, cur'.body) \/ EndsEarly) => Rejects
       /\ ReadsTop("mdat") /\ EndsEarly => Rejects
       /\ MetaReturns /\ eof' => Rejects]_vars

\* ---------------------------------------------------------------------- C14
\* This step reads a box that read_avif or read_avif_meta hands to
\* skip_box_content.
Skips ==
    /\ HeaderSound(cur'.head)
    /\ \/ pc = "top" /\ nboxes' = nboxes + 1 /\ cur'.head.name \notin {"meta", "mdat"}
       \/ /\ pc = "meta" /\ nchild' = nchild + 1
          /\ cur'.head.name \notin {"pitm", "iinf", "iloc", "iref", "iprp"}

\* check_parser_state found bytes left: the error, or the failed debug
\* assertion in front of it
CheckFails ==
    /\ pc' = "done"
    /\ result'.why \in {"unread box content or bad parser sync",
                        "bad parser state bytes left"}

\* C14 as stated: a box that is skipped because its type is not recognised
\* never triggers the check for unread box content, for any input.
C14_SkipNeverFailsCheck == [][Skips => ~CheckFails]_vars

\* C14: a skipped box fails the check for unread box content exactly when
\* its content ends before the payload it declares.
C14_SkipFailsCheckIffShort == [][Skips => (CheckFails <=> EndsEarly)]_vars

\* a box with payload was skipped whole and the parse went on
C14_Witness ==
    /\ pc \in {"top", "meta"}
    /\ cur.head.name \in {"free", "uuid"}
    /\ HeaderSound(cur.head)
    /\ cur.have > 0
    /\ cur.have = content_limit(read_box_header(cur.head).val)

\* ---------------------------------------------------------------------- C15
\* C15: read_box_header rejects a 32-bit size of 0 with Unsupported, a 32-bit
\* size of 2..7 with InvalidData and a 64-bit size below 16 with InvalidData;
\* every header it returns has offset <= size and size >= 8 (>= 16 in the
\* 64-bit form), uuid boxes included, so that assert!(offset <= size) holds
\* and size - offset in next_box does not underflow.
C15_HeaderSizes ==
    LET h == rd.h
        r == read_box_header(h) IN
    /\ r.kind # "Panic"
    /\ h.hbytes >= MIN_SIZE =>
        /\ h.size32 = 0 => r = Err("Unsupported", "unknown sized box")
        /\ h.size32 \in 2..7 => ~r.ok /\ r.kind = "InvalidData"
        /\ h.size32 = 1 /\ h.hbytes >= MIN_LARGE_SIZE /\ h.size64 < 16 =>
                ~r.ok /\ r.kind = "InvalidData"
    /\ r.ok =>
        /\ r.val.offset <= r.val.size
        /\ r.val.size >= 8
        /\ h.size32 = 1 => r.val.size >= 16
        /\ checked_sub(r.val.size, r.val.offset) = Some(content_limit(r.val))
        /\ rd.op.name = "next_box" => rd.out = Ok(Some(r.val))

\* a uuid box was returned with its extended type counted in the header
C15_Witness ==
    /\ rd.op.name = "next_box"
    /\ rd.out.ok /\ rd.out.val # None
    /\ Unwrap(rd.out.val).name = "uuid"
    /\ Unwrap(rd.out.val).offset = MIN_SIZE + UUID_SIZE

\* ---------------------------------------------------------------------- C16
\* C16: at every depth the bytes read through the sub-reader of a box never
\* exceed its declared size minus its header size, and a read through a
\* child box takes no more bytes than the budget its parent has left,
\* whatever the child declares and however long the stream is.
C16_WithinBudget ==
    [][/\ \A k \in 1..Len(rd.open) : rd'.pos - rd.pos <= rd.open[k].limit
       /\ \A k \in 1..Len(rd'.open) :
            /\ rd'.open[k].taken <= content_limit(rd'.open[k].head)
            /\ rd'.open[k].limit >= 0]_vars

\* the parent is exhausted by reads through a child that declares more,
\* and the stream goes on
C16_Witness ==
    /\ Len(rd.open) = 2
    /\ rd.open[1].limit = 0
    /\ rd.open[2].limit > 0 /\ rd.open[2].taken > 0
    /\ rd.pos < rd.len

\* ---------------------------------------------------------------------- C17
\* C17: whenever the sequence header of an AV1 buffer is parsed with
\* success, max_frame_width >= 1, max_frame_height >= 1, bit_depth is 8, 10
\* or 12 (12 only with seq_profile 2) and seq_profile is 0, 1 or 2; a
\* sequence header whose three bits of seq_profile are above 2 is rejected
\* with InvalidData.
C17_SequenceHeaderFields ==
    /\ obu.pc = "done" /\ obu.out.ok =>
        /\ obu.out.val.max_frame_width >= 1
        /\ obu.out.val.max_frame_height >= 1
        /\ obu.out.val.bit_depth \in {8, 10, 12}
        /\ obu.out.val.bit_depth = 12 => obu.out.val.seq_profile = 2
        /\ obu.out.val.seq_profile \in {0, 1, 2}
        /\ obu.out.val.seq_profile = obu.payload[1] \div 32
    /\ obu.pc = "done" /\ obu.payload # <<>> /\ obu.payload[1] \div 32 > 2 =>
        obu.out = Err("InvalidData", "seq_profile")

\* a sequence header of 12 bits and of more than one pixel was parsed
C17_Witness ==
    /\ obu.pc = "done" /\ obu.out.ok
    /\ obu.out.val.bit_depth = 12
    /\ obu.out.val.max_frame_width > 1

\* ---------------------------------------------------------------------- C18
\* C18: parse_obu walks the OBUs in order; an OBU that is not a sequence
\* header is skipped by its size (the LEB128 field when the has-size bit is
\* set, else the rest of the buffer, after one more byte when the extension
\* bit is set), and only the first OBU of type 1 is parsed. The result is
\* UnexpectedEOF when the buffer ends without a sequence header or an OBU
\* is larger than what is left, InvalidData when a header byte has its top
\* bit set. The walk ends on every buffer.
C18_Walk ==
    /\ [][obu.pc = "walk" =>
            LET data == obu.data
                at == obu.pos IN
            IF at = Len(data)
            THEN obu'.pc = "done" /\ obu'.out = Err("UnexpectedEOF", "")
            ELSE LET b == data[at + 1]
                     type == (b \div 8) % 16
                     ext == (b \div 4) % 2
                     has_size == (b \div 2) % 2
                     size_at == at + 1 + ext
                     field == leb128_read_unsigned(data, size_at)
                     payload_at == IF has_size = 1 THEN field.next ELSE size_at
                     size == IF has_size = 1 THEN field.value ELSE Len(data) - size_at IN
                 IF b >= 128
                 THEN obu'.pc = "done" /\ obu'.out = Err("InvalidData", "not obu")
                 ELSE IF size_at > Len(data)
                 THEN obu'.pc = "done" /\ obu'.out = Err("UnexpectedEOF", "")
                 ELSE IF has_size = 1 /\ ~field.ok
                 THEN obu'.pc = "done" /\ obu'.out = Err("InvalidData", "leb")
                 ELSE IF size > Len(data) - payload_at
                 THEN obu'.pc = "done" /\ obu'.out = Err("UnexpectedEOF", "")
                 ELSE IF type # 1
                 THEN /\ obu'.pc = "walk" /\ obu'.out = obu.out
                      /\ obu'.pos = payload_at + size /\ obu'.pos > at
                 ELSE /\ obu'.pc = "done"
                      /\ obu'.payload = SubSeq(data, payload_at + 1, payload_at + size)
                      /\ obu'.out = AvifData_parse_obu(SequenceHeaderObu_read(obu'.payload))
                      /\ \A k \in 1..Len(obu.skipped) :
                            (data[obu.skipped[k] + 1] \div 8) % 16 # 1]_vars
    /\ <>(obu.pc = "done")

\* an OBU with an extension byte was skipped, the sequence header after it
\* was parsed, and the buffer goes on behind it
C18_Witness ==
    /\ obu.pc = "done" /\ obu.out.ok
    /\ Len(obu.skipped) = 1
    /\ (obu.data[obu.skipped[1] + 1] \div 4) % 2 = 1
    /\ obu.pos < Len(obu.data)

C20_ReadIntoTryVec ==
    rd.op.name = "read_into_try_vec" =>
        /\ rd.out.ok =>
            /\ rd.pos <= rd.op.at + rd.op.limit
            /\ rd.op.avail >= rd.op.limit =>
                    /\ rd.out.val = FileBytes(rd.op.at, rd.op.limit)
                    /\ rd.pos = rd.op.at + rd.op.limit
        /\ rd.op.limit > ISIZE_MAX => ~rd.out.ok
        /\ ~rd.out.ok => rd.out.kind = "Io" /\ rd.pos = rd.op.at

\* L bytes were returned from a stream that holds more than L
C20_Witness ==
    /\ rd.op.name = "read_into_try_vec"
    /\ rd.out.ok
    /\ rd.op.limit > 0
    /\ Len(rd.out.val) = rd.op.limit
    /\ rd.pos < rd.len

\* ---------------------------------------------------------------------- C21
\* the property boxes of the given type in the ipco boxes of an iprp box
RECURSIVE FileProperties(_, _)
FileProperties(boxes, name) ==
    IF boxes = <<>> THEN <<>>
    ELSE SelectSeq(Head(boxes).props, LAMBDA p : p.name = name)
            \o FileProperties(Tail(boxes), name)

\* C21: the result of read_avif carries the HDR metadata of the file. For a
\* file with a content-light-level property associated with the primary
\* item the property's two values are handed on by read_iprp for that item,
\* and likewise the ten values of a mastering-display property; a file with
\* both has both handed on. (Only what read_iprp returns can reach the
\* result of read_avif.)
C21_HdrMetadata ==
    [][ReadsChild("iprp") /\ pc' = "meta" =>
          \A name \in {"clli", "mdcv"} :
              \A k \in 1..Len(FileProperties(cur'.body.boxes, name)) :
                  \E i \in 1..Len(local'.properties) :
                      /\ local'.properties[i].item_id = Unwrap(local.primary_item_id)
                      /\ local'.properties[i].property.data
                            = FileProperties(cur'.body.boxes, name)[k].data]_vars

\* ---------------------------------------------------------------------- C22
\* C22: dropping a sub-reader raises no error, and when it is dropped with
\* unread bytes in its budget, all of them in the stream and within the
\* budget of its parent, the next header the parent iterator reads starts
\* at the declared end of the dropped box.
C22_DropDiscardsRemainder ==
    [][/\ rd'.op.name = "drop" => rd'.out = rd.out /\ rd'.pos = rd.pos
       /\ (/\ rd.op.name = "drop" /\ rd.op.limit > 0
           /\ rd.op.at + rd.op.limit <= rd.len
           /\ rd.open # <<>> => rd.open[Len(rd.open)].limit >= rd.op.limit
           /\ rd'.op.name = "next_box")
          => rd'.op.at = rd.op.at + rd.op.limit]_vars

\* ---------------------------------------------------------------------- C23
\* the bits of the payload of the iloc box: version, flags and what follows
PayloadBits == 8 * (4 + Len(il.data))

\* C23: the work read_iloc does is bounded by the declared payload alone:
\* the passes through its loops over the items and the extents, and the
\* extents it has stored for an item, never number more than the payload
\* has bits, for every combination of field widths.
C23_WorkBounded ==
    il.pc # "idle" =>
        /\ il.iterations <= PayloadBits
        /\ Len(il.extents) <= PayloadBits

\* ---------------------------------------------------------------------- C24
\* the big-endian value of the n bytes after the first `at` bytes of d
RECURSIVE be_value(_, _, _)
be_value(d, at, n) == IF n = 0 THEN 0 ELSE 256 * be_value(d, at, n - 1) + d[at + n]

\* where the offset field of the extent read next lies, in bytes
ExtentAt ==
    il.pos \div 8 + (IF il.index_size \in {NoIndex, 0} THEN 0 ELSE il.index_size)

\* C24: for every extent that read_iloc reads whole, start = base offset +
\* extent offset, an offset field of width zero reading as 0; the extent
\* runs to the end of the source when its length field is zero or has width
\* zero, and otherwise has end = start + length; when either sum passes the
\* largest u64 read_iloc fails with InvalidData and stores no extent.
C24_ExtentRange ==
    [][(/\ il.pc = "extents"
        /\ ExtentAt + il.offset_size + il.length_size <= Len(il.data))
       => LET off == IF il.offset_size = 0 THEN 0
                     ELSE be_value(il.data, ExtentAt, il.offset_size)
              len == IF il.length_size = 0 THEN 0
                     ELSE be_value(il.data, ExtentAt + il.offset_size, il.length_size)
              start == il.item.base_offset + off
              e == il'.extents[Len(il'.extents)] IN
          IF start > U64Max \/ (len # 0 /\ start + len > U64Max)
          THEN /\ il'.pc = "done" /\ il'.out.kind = "InvalidData"
               /\ il'.extents = il.extents
          ELSE /\ il'.pc # "done"
               /\ Len(il'.extents) = Len(il.extents) + 1
               /\ e.start = start
               /\ IF len = 0 THEN e.kind = "ToEnd"
                  ELSE e.kind = "WithLength" /\ e.end = start + len]_vars

\* an item whose extent has a start that fits and an end that does not
C24_Witness ==
    /\ il.pc = "done" /\ il.out.why = "end calculation overflow"
    /\ il.offset_size = 4 /\ il.length_size = 4
    /\ il.item.base_offset = 7

\* ---------------------------------------------------------------------- C25
\* the bits that items with these extents take in a box of this version and
\* these field widths, the sizes and the item count in front of them
RECURSIVE ItemsBits(_)
ItemsBits(items) ==
    IF items = <<>> THEN 0
    ELSE (IF il.version = 2 THEN 32 ELSE 16) + (IF il.version = 0 THEN 0 ELSE 16)
         + 16 + 8 * il.base_offset_size + 16
         + Len(Head(items).extents)
             * ((IF il.index_size = NoIndex THEN 0 ELSE 8 * il.index_size)
                + 8 * il.offset_size + 8 * il.length_size)
         + ItemsBits(Tail(items))
BoxBits(items) == 16 + (IF il.version = 2 THEN 32 ELSE 16) + ItemsBits(items)

\* the item count written in the payload
DeclaredItems == be_value(il.data, 2, IF il.version = 2 THEN 4 ELSE 2)

\* C25: read_iloc succeeds only if the declared number of items, each with
\* its extents, takes up the payload exactly: when it returns Ok it returns
\* as many items as the box declares and their fields fill the payload to
\* its last bit; bits left over after the last declared item make it fail
\* with InvalidData; and when it returns before it has read the declared
\* items it returns an error.
C25_ExactConsumption ==
    [][il'.pc = "done" =>
          /\ il'.out.ok =>
                /\ Len(il'.out.val) = DeclaredItems
                /\ BoxBits(il'.out.val) = 8 * Len(il.data)
          /\ (il.pc = "items" /\ Len(il.items) = il.item_count
                 /\ il.pos < 8 * Len(il.data))
                => ~il'.out.ok /\ il'.out.kind = "InvalidData"
          /\ (il.pc \in {"items", "extents"} /\ Len(il'.items) < il.item_count)
                => ~il'.out.ok]_vars

\* two items were read whole and a byte is left over
C25_Witness ==
    /\ il.pc = "done" /\ il.out.why = "invalid iloc size"
    /\ Len(il.items) = 2 /\ il.item_count = 2
    /\ il.pos = 8 * (Len(il.data) - 1)

\* ---------------------------------------------------------------------- C26
\* the bytes of the item id and of the construction method in this version
IdBytes == IF il.version = 2 THEN 4 ELSE 2
MethodBytes == IF il.version = 0 THEN 0 ELSE 2

\* C26: for an item whose fields up to the extent count are in the payload,
\* read_iloc takes the construction method as file-stored in a version 0 box;
\* in versions 1 and 2 it reads it from the field: 0 is file-stored, 1 is
\* item-data-box-stored, 2 fails with Unsupported and any other value with
\* InvalidData; then a data reference index other than 0 fails with
\* Unsupported, and then an extent count of 0 fails with InvalidData.
C26_ItemFields ==
    [][(/\ il.pc = "items" /\ Len(il.items) < il.item_count
        /\ il.pos \div 8 + IdBytes + MethodBytes + 2 + il.base_offset_size + 2
              <= Len(il.data))
       => LET at == il.pos \div 8
              method == IF il.version = 0 THEN 0
                        ELSE be_value(il.data, at + IdBytes, 2) % 16
              data_reference_index == be_value(il.data, at + IdBytes + MethodBytes, 2)
              extent_count ==
                  be_value(il.data, at + IdBytes + MethodBytes + 2 + il.base_offset_size, 2) IN
          IF method = 2 THEN il'.pc = "done" /\ il'.out.kind = "Unsupported"
          ELSE IF method > 2 THEN il'.pc = "done" /\ il'.out.kind = "InvalidData"
          ELSE IF data_reference_index # 0
          THEN il'.pc = "done" /\ il'.out.kind = "Unsupported"
          ELSE IF extent_count = 0 THEN il'.pc = "done" /\ il'.out.kind = "InvalidData"
          ELSE /\ il'.pc = "extents"
               /\ il'.item.construction_method = IF method = 0 THEN "File" ELSE "Idat"
               /\ il'.extent_count = extent_count]_vars

\* an item of a version 1 box with construction method 2 was rejected
C26_Witness ==
    /\ il.pc = "done" /\ il.version = 1 /\ il.iterations = 1
    /\ il.out = Err("Unsupported", "construction_method 'item_offset' is not supported")

\* ---------------------------------------------------------------------- C27
\* the children of an iprp box with one ipco and one ipma box
IpcoOf(boxes) == CHOOSE b \in {boxes[k] : k \in 1..Len(boxes)} : b.name = "ipco"
IpmaOf(boxes) == CHOOSE b \in {boxes[k] : k \in 1..Len(boxes)} : b.name = "ipma"
OneOfEach(boxes) ==
    /\ Len(boxes) = 2
    /\ {boxes[1].name, boxes[2].name} = {"ipco", "ipma"}

\* the associations of an ipma box in the order of the box: item id and
\* property index
Associations(ipma) ==
    Concat([k \in 1..Len(ipma.entries) |->
              [j \in 1..Len(ipma.entries[k].assocs) |->
                 <<ipma.entries[k].item_id, ipma.entries[k].assocs[j].property_index>>]])

\* C27: when read_iprp succeeds on a box with one ipco and one ipma box, its
\* result lists, in association order, the associations whose index is at
\* least 1, at most the number of children of ipco, and names a pixi or auxC
\* child, each as the item id with the property stored in the child at
\* position index (counting every child from 1); all others are skipped
\* without error.
C27_Associations ==
    [][(ReadsChild("iprp") /\ pc' = "meta" /\ OneOfEach(cur'.body.boxes))
       => LET ps == IpcoOf(cur'.body.boxes).props
              kept == SelectSeq(Associations(IpmaOf(cur'.body.boxes)),
                          LAMBDA a : /\ 1 <= a[2] /\ a[2] <= Len(ps)
                                     /\ ps[a[2]].name \in {"pixi", "auxC"}) IN
          /\ Len(local'.properties) = Len(kept)
          /\ \A i \in 1..Len(kept) :
                /\ local'.properties[i].item_id = kept[i][1]
                /\ local'.properties[i].property.data = ps[kept[i][2]].data
                /\ local'.properties[i].property.kind
                      = IF ps[kept[i][2]].name = "pixi" THEN "Channels"
                        ELSE "AuxiliaryType"]_vars

\* of two associations of an item the first names the unsupported third
\* child of ipco and is skipped, the second names the first child
C27_Witness ==
    /\ pc = "meta" /\ cur.head.name = "iprp" /\ OneOfEach(cur.body.boxes)
    /\ Associations(IpmaOf(cur.body.boxes)) = <<<<2, 3>>, <<2, 1>>>>
    /\ IpcoOf(cur.body.boxes).props[3].name = "colr"
    /\ Len(local.properties) = 1
    /\ local.properties[1].property.data = IpcoOf(cur.body.boxes).props[1].data

\* ---------------------------------------------------------------------- C28
\* C28: a top-level mdat box with an empty payload is not captured; one with
\* a payload is appended to the captured boxes, after those captured before
\* it, with the offset of its first payload byte (the bytes consumed before
\* the box and its header of 8 or 16 bytes) and, when the file holds the
\* payload, with all of its bytes. While the top-level boxes are read the
\* captured boxes lie one after the other in the file without overlap. No
\* item is resolved before the loop over the top-level boxes has ended, and
\* nothing is read from the file afterwards.
C28_MdatCapture ==
    /\ [][ReadsTop("mdat") =>
            LET h == cur'.head
                at == offset + (IF h.size32 = 1 THEN MIN_LARGE_SIZE ELSE MIN_SIZE)
                box == mdats'[Len(mdats')] IN
            IF PayloadLen(h) = 0 THEN mdats' = mdats
            ELSE /\ Len(mdats') = Len(mdats) + 1
                 /\ SubSeq(mdats', 1, Len(mdats)) = mdats
                 /\ box.offset = at
                 /\ cur'.have = PayloadLen(h) =>
                       /\ Len(box.data) = PayloadLen(h)
                       /\ \A i \in 1..Len(box.data) : box.data[i] = ByteAt(at + i - 1)]_vars
    /\ [](pc \in {"top", "meta"} =>
            \A i, j \in 1..Len(mdats) :
                i < j => mdats[i].offset + Len(mdats[i].data) <= mdats[j].offset)
    /\ [][(context' # context \/ loc_i' # loc_i \/ ext_j' # ext_j
              \/ pc \in {"alpha", "load"})
            => /\ pc \in {"alpha", "load"} /\ eof
               /\ nboxes' = nboxes /\ offset' = offset]_vars

\* a file with a media-data box before its meta box and one after it was
\* parsed
C28_Witness ==
    /\ pc = "done" /\ result.ok
    /\ Len(captured) = 2
    /\ captured[1].offset = 16 + MIN_SIZE
    /\ captured[2].offset > captured[1].offset + MaxMdatLen + MIN_SIZE

\* ---------------------------------------------------------------- C29
\* the bit of the payload at which color_config starts
ColorStart(data) ==
    LET a == sequence_start(data)
        p7 == IF a.reduced_still_picture_header THEN a.p
              ELSE operating_points(data, a.p, a.operating_points_cnt,
                                    a.initial_display_delay_present_flag)
        f == frame_size(data, p7, a.reduced_still_picture_header)
    IN coding_tools(data, f.p, a.reduced_still_picture_header).p

\* where the fields of color_config lie in the payload of a header that was
\* read: .described is color_description_present_flag, .at the bit after
\* the flag or after the three bytes that follow it
ColorLayout ==
    LET d == obu.payload
        s == ColorStart(d)
        seq_profile == obu.seq.val.seq_profile
        n1 == s + 1 + (IF seq_profile = 2 /\ bit_at(d, s) = 1 THEN 1 ELSE 0)
        n2 == n1 + (IF seq_profile # 1 THEN 1 ELSE 0)
        described == bit_at(d, n2) = 1
    IN [described |-> described, at |-> n2 + 1 + (IF described THEN 24 ELSE 0)]

\* The decision table of color_config over the header that was read, the
\* bit after ColorConfig being film_grain_params_present. mono_reads says
\* whether a monochrome header has its color_range bit in the stream.
SubsamplingTable(mono_reads) ==
    LET d == obu.payload
        c == obu.seq.val.color
        seq_profile == obu.seq.val.seq_profile
        film_grain == IF obu.seq.val.film_grain_params_present THEN 1 ELSE 0
        at == ColorLayout.at
        pair == <<c.subsampling_x, c.subsampling_y>>
        srgb == /\ c.color_primaries = 1 /\ c.transfer_characteristics = 13
                /\ c.matrix_coefficients = 0
        implied == /\ pair = <<0, 0>> /\ c.color_range = 1
                   /\ film_grain = bit_at(d, at)
    IN
    /\ ~ColorLayout.described =>
          <<c.color_primaries, c.transfer_characteristics, c.matrix_coefficients>>
              = <<2, 2, 2>>
    /\ IF c.mono_chrome
       THEN IF mono_reads
            THEN /\ pair = <<0, 0>> /\ c.color_range = bit_at(d, at)
                 /\ film_grain = bit_at(d, at + 1)
            ELSE implied
       ELSE IF srgb THEN implied
       ELSE /\ c.color_range = bit_at(d, at)
            /\ seq_profile = 0 => pair = <<1, 1>> /\ film_grain = bit_at(d, at + 4)
            /\ seq_profile = 1 => pair = <<0, 0>> /\ film_grain = bit_at(d, at + 2)
            /\ seq_profile = 2 /\ c.bit_depth # 12 =>
                  pair = <<1, 0>> /\ film_grain = bit_at(d, at + 2)
            /\ seq_profile = 2 /\ c.bit_depth = 12 =>
                  /\ c.subsampling_x = bit_at(d, at + 1)
                  /\ c.subsampling_y = IF c.subsampling_x = 1 THEN bit_at(d, at + 2) ELSE 0
                  /\ film_grain = bit_at(d, at + (CASE pair = <<0, 0>> -> 3
                                                    [] pair = <<1, 0>> -> 4
                                                    [] pair = <<1, 1>> -> 6))

\* C29 as stated: color_config derives the chroma subsampling pair by a
\* fixed table: profile 0 gives (1,1), profile 1 gives (0,0), profile 2 with
\* 12 bits reads explicit flags (y only when x is 1), profile 2 otherwise
\* gives (1,0); monochrome, or color primaries 1 with transfer 13 and matrix
\* 0, gives (0,0) with an implied full color range and no color-range bit
\* read; the primaries/transfer/matrix triple is (2,2,2) when the
\* description flag is clear.
C29_ImpliedRangeForMonochrome ==
    obu.pc = "done" /\ obu.seq.ok => SubsamplingTable(FALSE)

\* C29, amended: the same table, with the full color range implied (and no
\* color-range bit read) for color primaries 1 with transfer 13 and matrix
\* 0 in a header that is not monochrome only; a monochrome header gives
\* (0,0) and has its color range read from one bit of the stream.
C29_SubsamplingTable ==
    obu.pc = "done" /\ obu.seq.ok => SubsamplingTable(TRUE)

\* a monochrome 12-bit header whose color-range bit is 0 was read
C29_Witness ==
    /\ obu.pc = "done" /\ obu.seq.ok
    /\ obu.seq.val.color.mono_chrome
    /\ obu.seq.val.color.bit_depth = 12
    /\ obu.seq.val.color.color_range = 0
    /\ bit_at(obu.payload, ColorLayout.at) = 0

\* ---------------------------------------------------------------- C30
\* the buffer of the item that location k fills
BufferOf(ctx, k) ==
    IF IlocItems[k].item_id = PrimaryId THEN ctx.primary_item
    ELSE Unwrap(ctx.alpha_item)

\* C30: resolving one extent leaves the captured media-data boxes unchanged
\* for later extents, and the bytes obtained for an extent depend only on
\* that extent and on the boxes as read from the file: every extent (of one
\* item, or of the primary and the alpha item) resolves to the bytes of its
\* own range, whichever extents were resolved before it.
C30_ExtentsLeaveBoxesUnchanged ==
    [][pc = "load" /\ ext_j > 0 =>
          LET extent == IlocItems[loc_i].extents[ext_j]
              fresh == load_extent(captured, 1, extent) IN
          /\ mdats' = mdats
          /\ fresh.ok =>
                /\ pc' = "load"
                /\ BufferOf(context', loc_i) = BufferOf(context, loc_i) \o fresh.val.bytes]_vars

====
